---------------------------- MODULE Spec2Model ----------------------------
(***************************************************************************)
(* Crawl orchestration and entity resolution of the UniScholar crawler     *)
(* (unischolarBackend): the per-domain rate limiter, the confidence        *)
(* function and the extraction strategies, the deduplication merge and     *)
(* the worker-pool crawl of AcademicWebCrawler.                            *)
(*                                                                         *)
(* Each part has its own specification over its own variables:             *)
(*   SpecRate   RateLimiter._wait_for_domain / _apply_rate_limit           *)
(*   SpecDedup  AcademicWebCrawler._deduplicate_all_organizations          *)
(*   SpecConf   the extraction strategies and the confidence functions     *)
(*   SpecCrawl  search_and_crawl / _crawl_urls                             *)
(*   SpecFetch      fetch_url: robots gate, rate limiter, GET attempts     *)
(*   SpecRobots     can_fetch called by several workers at once            *)
(*   SpecBackoff    RateLimiter.get_retry_delay                            *)
(*   SpecSearch     _perform_search and the search step                    *)
(*   SpecPolite     the GET requests sent to one domain over time          *)
(*   SpecSearchRate _apply_global_search_rate_limit across instances       *)
(*   SpecRun        AcademicCrawler.run over the request queue             *)
(*   SpecQueue      RequestQueue under any sequence of calls               *)
(*   SpecPage       the extraction strategies on one fetched page          *)
(* Confidence scores are counted in hundredths (0.7 is 70), times in ticks.*)
(***************************************************************************)
EXTENDS Integers, Sequences, FiniteSets, TLC

VARIABLES
    \* ---- rate limiter ----
    rl_impl,      \* which gate the threads call: "RateLimiter" or "Crawler"
    rl_now,       \* the clock, time.time()
    rl_pc,        \* thread -> position in the acquire operation
    rl_dom,       \* thread -> domain of the call in progress
    rl_wake,      \* thread -> local: sleep_time, then the wake-up time
    rl_lock,      \* lock name -> holder (0: free)
    rl_locks,     \* RateLimiter._domain_locks: the domains that have a lock
    rl_last,      \* domain -> last granted time (the timestamp map, 0 default)
    rl_grants,    \* history: domain -> the grant times in order
    rl_calls,     \* number of acquire calls started
    rl_made,      \* domain -> threading.Lock() objects created for it
    \* ---- deduplication merge ----
    dd_pc,        \* "build", "merged" or "remerged"
    dd_input,     \* the list handed to _deduplicate_all_organizations
    dd_once,      \* its result
    dd_twice,     \* the result of merging dd_once again
    \* ---- extraction of one item of a page ----
    cf_pc,        \* "item", "extracted" or "enhanced"
    cf_name,      \* the item's text (link text, JSON-LD name, entity text)
    cf_url,       \* the item's URL
    cf_query,     \* the query's NER entities
    cf_ner,       \* TRUE when the NER result has entities for the page
    cf_out,       \* the candidates the strategy produced (none or one)
    \* ---- one run of search_and_crawl ----
    cr_pc,        \* "pool", "blog", "dedup", "merge", "done" or "raised"
    cr_page,      \* what each URL of the batch serves
    cr_blog,      \* what the blog article linked from a listicle page serves
    cr_disc,      \* the organizations university discovery found
    cr_state,     \* each URL's future: "queued", "running" or "collected"
    cr_orgs,      \* organizations
    cr_content,   \* general_content
    cr_failed,    \* failed_urls
    cr_result,    \* the organizations of the returned CrawlResult
    cr_fetches,   \* the URLs fetch_url was called with, in call order
    cr_merges,    \* how often _deduplicate_all_organizations has run
    \* ---- fetch_url calls on the URLs of one origin ----
    ft_impl,      \* "AcademicWebCrawler" or "WebUtils"
    ft_respect,   \* the robots_respect setting
    ft_robots,    \* what a request for the origin's robots.txt meets
    ft_cache,     \* robot_parsers[domain]: "absent", "None" or a parser state
    ft_reads,     \* requests made for robots.txt
    ft_calls,     \* fetch_url calls started
    ft_pc,        \* position in fetch_url
    ft_path,      \* the path of the URL being fetched
    ft_attempt,   \* the loop variable attempt
    ft_gets,      \* GET requests made for the URL in this call
    ft_limited,   \* TRUE once this call passed the rate limiter
    ft_outcome,   \* "none", "blocked", "failed" or "fetched"
    ft_cfg,       \* the rate_limiting section of the crawler's configuration
    ft_trace,     \* the steps of the call in progress, in the order taken
    \* ---- RateLimiter.get_retry_delay ----
    bk_cfg,       \* rate_config: min_interval, backoff_factor, max_delay
    bk_delays,    \* the delays returned for attempt 0, 1, 2, ... so far
    \* ---- the search step of search_and_crawl ----
    se_impl,      \* "v1" or "v0"
    se_cfg,       \* search_rate_limiting: the delays and search_max_retries
    se_pc,        \* "start", "call", "sleep", "returned", "done" or "raised"
    se_attempt,   \* the loop variable attempt
    se_calls,     \* calls made to the search provider
    se_slept,     \* the delays slept before the retries, in order
    se_results,   \* items in the results list
    se_last,      \* items the latest provider call delivered
    se_batch,     \* items in the list _perform_search returned
    se_orgs,      \* organizations in the CrawlResult
    \* ---- AcademicCrawler.run over the request queue ----
    rn_conc,      \* max_concurrent
    rn_budget,    \* max_requests
    rn_up,        \* url -> the GET of the URL succeeds
    rn_links,     \* url -> the directory links of its page
    rn_queue,     \* request_queue.queue
    rn_processed, \* request_queue.processed_urls
    rn_count,     \* processed_count
    rn_pc,        \* "loop", "gather", "done" or "cancelled"
    rn_tasks,     \* the tasks of the batch that have not ended
    rn_ended,     \* the URLs whose request has ended, in order
    rn_results,   \* the URLs whose organizations are in self.results
    \* ---- the extraction strategies on one fetched page ----
    pg_impl,      \* "AcademicWebCrawler" (v1) or "AcademicCrawler" (crawlee_crawler)
    pg_disc,      \* university discovery found universities
    pg_blocks,    \* the JSON-LD script blocks of the page
    pg_links,     \* the anchors outside tables
    pg_rows,      \* the table rows
    pg_pc,        \* "structured", "links", "tables", "page", "done" or "raised"
    pg_i,         \* blocks or rows handled so far in the running loop
    pg_orgs,      \* organizations
    pg_result,    \* the organizations returned for the crawl
    \* ---- can_fetch called by several workers for one origin ----
    rb_pc,        \* worker -> "idle", "reading", "decide" or "done"
    rb_path,      \* worker -> the path of its URL
    rb_cache,     \* robot_parsers[domain]: "absent", "None" or a parser state
    rb_reads,     \* requests made for robots.txt
    rb_used,      \* worker -> the robot_parsers entry it decided on
    rb_answer,    \* worker -> what can_fetch returned
    \* ---- RequestQueue under any sequence of calls ----
    rq_max,       \* max_size
    rq_queue,     \* RequestQueue.queue
    rq_processed, \* RequestQueue.processed_urls
    rq_ops,       \* calls made so far
    rq_last,      \* the last call: its argument or result, its return value, the state before it
    \* ---- _apply_global_search_rate_limit called on several crawler instances ----
    sr_now,       \* the clock, time.time()
    sr_pc,        \* instance -> "idle", "want" or "inside"
    sr_lock,      \* holder of AcademicWebCrawler._search_lock (0: free)
    sr_class,     \* the class attribute AcademicWebCrawler._last_search_time
    sr_own,       \* instance -> its own _last_search_time attribute, <<>> while it has none
    sr_wake,      \* instance -> the time its sleep ends
    sr_grants,    \* the grant times in order
    sr_calls,     \* calls started
    \* ---- the GET requests of fetch_url calls on one domain ----
    gp_delay,     \* request_delay, in seconds
    gp_now,       \* the clock, time.time()
    gp_pc,        \* worker -> "idle", "want", "inside", "get" or "backoff"
    gp_lock,      \* holder of per_domain_lock (0: free)
    gp_last,      \* per_domain_last_time[domain]
    gp_wake,      \* worker -> the time its sleep ends
    gp_attempt,   \* worker -> the loop variable attempt
    gp_gets,      \* the times of the GET requests sent to the domain, in order
    gp_calls      \* fetch_url calls started

rateVars == <<rl_impl, rl_now, rl_pc, rl_dom, rl_wake, rl_lock, rl_locks,
             rl_last, rl_grants, rl_calls, rl_made>>

dedupVars == <<dd_pc, dd_input, dd_once, dd_twice>>

confVars == <<cf_pc, cf_name, cf_url, cf_query, cf_ner, cf_out>>

crawlVars == <<cr_pc, cr_page, cr_blog, cr_disc, cr_state, cr_orgs, cr_content,
               cr_failed, cr_result, cr_fetches, cr_merges>>

fetchVars == <<ft_impl, ft_respect, ft_robots, ft_cache, ft_reads, ft_calls,
               ft_pc, ft_path, ft_attempt, ft_gets, ft_limited, ft_outcome,
               ft_cfg, ft_trace>>

backoffVars == <<bk_cfg, bk_delays>>

searchVars == <<se_impl, se_cfg, se_pc, se_attempt, se_calls, se_slept,
                se_results, se_last, se_batch, se_orgs>>

runVars == <<rn_conc, rn_budget, rn_up, rn_links, rn_queue, rn_processed,
             rn_count, rn_pc, rn_tasks, rn_ended, rn_results>>

pageVars == <<pg_impl, pg_disc, pg_blocks, pg_links, pg_rows, pg_pc, pg_i,
              pg_orgs, pg_result>>

robotsVars == <<rb_pc, rb_path, rb_cache, rb_reads, rb_used, rb_answer>>

queueVars == <<rq_max, rq_queue, rq_processed, rq_ops, rq_last>>

searchRateVars == <<sr_now, sr_pc, sr_lock, sr_class, sr_own, sr_wake,
                    sr_grants, sr_calls>>

politeVars == <<gp_delay, gp_now, gp_pc, gp_lock, gp_last, gp_wake,
                gp_attempt, gp_gets, gp_calls>>

vars == <<rateVars, dedupVars, confVars, crawlVars, fetchVars,
          backoffVars, searchVars, runVars, pageVars, robotsVars,
          queueVars, searchRateVars, politeVars>>

\* The parts a specification does not use stay in their idle state.
RL_Frame ==
    UNCHANGED <<dedupVars, confVars, crawlVars, fetchVars, backoffVars,
                searchVars, runVars, pageVars, robotsVars, queueVars,
                searchRateVars, politeVars>>
DD_Frame ==
    UNCHANGED <<rateVars, confVars, crawlVars, fetchVars, backoffVars,
                searchVars, runVars, pageVars, robotsVars, queueVars,
                searchRateVars, politeVars>>
CF_Frame ==
    UNCHANGED <<rateVars, dedupVars, crawlVars, fetchVars, backoffVars,
                searchVars, runVars, pageVars, robotsVars, queueVars,
                searchRateVars, politeVars>>
CR_Frame ==
    UNCHANGED <<rateVars, dedupVars, confVars, fetchVars, backoffVars,
                searchVars, runVars, pageVars, robotsVars, queueVars,
                searchRateVars, politeVars>>
FT_Frame ==
    UNCHANGED <<rateVars, dedupVars, confVars, crawlVars, backoffVars,
                searchVars, runVars, pageVars, robotsVars, queueVars,
                searchRateVars, politeVars>>
BK_Frame ==
    UNCHANGED <<rateVars, dedupVars, confVars, crawlVars, fetchVars,
                searchVars, runVars, pageVars, robotsVars, queueVars,
                searchRateVars, politeVars>>
SE_Frame ==
    UNCHANGED <<rateVars, dedupVars, confVars, crawlVars, fetchVars,
                backoffVars, runVars, pageVars, robotsVars, queueVars,
                searchRateVars, politeVars>>
RN_Frame ==
    UNCHANGED <<rateVars, dedupVars, confVars, crawlVars, fetchVars,
                backoffVars, searchVars, pageVars, robotsVars, queueVars,
                searchRateVars, politeVars>>
PG_Frame ==
    UNCHANGED <<rateVars, dedupVars, confVars, crawlVars, fetchVars,
                backoffVars, searchVars, runVars, robotsVars, queueVars,
                searchRateVars, politeVars>>
RB_Frame ==
    UNCHANGED <<rateVars, dedupVars, confVars, crawlVars, fetchVars,
                backoffVars, searchVars, runVars, pageVars, queueVars,
                searchRateVars, politeVars>>
RQ_Frame ==
    UNCHANGED <<rateVars, dedupVars, confVars, crawlVars, fetchVars,
                backoffVars, searchVars, runVars, pageVars, robotsVars,
                searchRateVars, politeVars>>
SR_Frame ==
    UNCHANGED <<rateVars, dedupVars, confVars, crawlVars, fetchVars,
                backoffVars, searchVars, runVars, pageVars, robotsVars,
                queueVars, politeVars>>
GP_Frame ==
    UNCHANGED <<rateVars, dedupVars, confVars, crawlVars, fetchVars,
                backoffVars, searchVars, runVars, pageVars, robotsVars,
                queueVars, searchRateVars>>

NoQuery == [universities |-> {}, programs |-> {}, scholarships |-> {}]
CF_Off ==
    /\ cf_pc = "off" /\ cf_name = <<>> /\ cf_url = "" /\ cf_query = NoQuery
    /\ cf_ner = FALSE /\ cf_out = <<>>

CR_Off ==
    /\ cr_pc = "off" /\ cr_page = <<>> /\ cr_blog = "none" /\ cr_disc = <<>>
    /\ cr_state = <<>> /\ cr_orgs = <<>> /\ cr_content = <<>>
    /\ cr_failed = <<>> /\ cr_result = <<>> /\ cr_fetches = <<>>
    /\ cr_merges = 0

FT_Off ==
    /\ ft_impl = "off" /\ ft_respect = TRUE /\ ft_robots = "rules"
    /\ ft_cache = "absent" /\ ft_reads = 0 /\ ft_calls = 0 /\ ft_pc = "idle"
    /\ ft_path = "/" /\ ft_attempt = 0 /\ ft_gets = 0 /\ ft_limited = FALSE
    /\ ft_outcome = "none" /\ ft_cfg = <<>> /\ ft_trace = <<>>

BK_Off == bk_cfg = <<>> /\ bk_delays = <<>>

SE_Off ==
    /\ se_impl = "off" /\ se_cfg = <<>> /\ se_pc = "off" /\ se_attempt = 0
    /\ se_calls = 0 /\ se_slept = <<>> /\ se_results = 0 /\ se_batch = 0
    /\ se_orgs = 0 /\ se_last = 0

RN_Off ==
    /\ rn_conc = 0 /\ rn_budget = 0 /\ rn_up = <<>> /\ rn_links = <<>>
    /\ rn_queue = <<>> /\ rn_processed = {} /\ rn_count = 0 /\ rn_pc = "off"
    /\ rn_tasks = {} /\ rn_ended = <<>> /\ rn_results = {}

PG_Off ==
    /\ pg_impl = "off" /\ pg_disc = FALSE /\ pg_blocks = <<>> /\ pg_links = <<>>
    /\ pg_rows = <<>> /\ pg_pc = "off" /\ pg_i = 0 /\ pg_orgs = <<>>
    /\ pg_result = <<>>

RB_Off ==
    /\ rb_pc = <<>> /\ rb_path = <<>> /\ rb_cache = "absent" /\ rb_reads = 0
    /\ rb_used = <<>> /\ rb_answer = <<>>

RQ_Off ==
    /\ rq_max = 0 /\ rq_queue = <<>> /\ rq_processed = {} /\ rq_ops = 0
    /\ rq_last = <<>>

SR_Off ==
    /\ sr_now = 0 /\ sr_pc = <<>> /\ sr_lock = 0 /\ sr_class = 0 /\ sr_own = <<>>
    /\ sr_wake = <<>> /\ sr_grants = <<>> /\ sr_calls = 0

GP_Off ==
    /\ gp_delay = 0 /\ gp_now = 0 /\ gp_pc = <<>> /\ gp_lock = 0 /\ gp_last = 0
    /\ gp_wake = <<>> /\ gp_attempt = <<>> /\ gp_gets = <<>> /\ gp_calls = 0

DD_Off == dd_pc = "off" /\ dd_input = <<>> /\ dd_once = <<>> /\ dd_twice = <<>>

(***************************************************************************)
(* Rate limiter                                                            *)
(***************************************************************************)
RL_Threads == 2
RL_MaxTime == 6
RL_MaxCalls == 3

\* RateLimitConfig.min_interval and BaseCrawler.request_delay, in ticks
MinInterval == 2
RequestDelay == 2

Threads == 1..RL_Threads
Domains == {"a.edu", "b.edu"}
\* _domain_lock guards lock creation (RateLimiter); per_domain_lock is the
\* crawler's single lock; a domain name stands for that domain's own lock.
LockNames == {"_domain_lock", "per_domain_lock"} \cup Domains

Interval == IF rl_impl = "RateLimiter" THEN MinInterval ELSE RequestDelay

\* The lock under which a thread runs the read-sleep-write section.
SectionLock(t) ==
    IF rl_impl = "RateLimiter" THEN rl_dom[t] ELSE "per_domain_lock"

\* sleep_time = min_interval - time_since_last when that is positive
SleepTimeNone(last, cur) == 0
SleepTime(last, cur) ==
    IF cur - last < Interval THEN Interval - (cur - last) ELSE 0

\* a test that finds no lock whatever the map holds
LockMissingAlways(locks, d) == TRUE
\* if domain not in self._domain_locks
LockMissing(locks, d) == d \notin locks

RL_Init ==
    /\ rl_impl \in {"RateLimiter", "Crawler"}
    /\ rl_now = MinInterval
    /\ rl_pc = [t \in Threads |-> "idle"]
    /\ rl_dom = [t \in Threads |-> "a.edu"]
    /\ rl_wake = [t \in Threads |-> 0]
    /\ rl_lock = [l \in LockNames |-> 0]
    /\ rl_locks = {}
    /\ rl_last = [d \in Domains |-> 0]
    /\ rl_grants = [d \in Domains |-> <<>>]
    /\ rl_calls = 0
    /\ rl_made = [d \in Domains |-> 0]
    /\ DD_Off /\ CF_Off /\ CR_Off /\ FT_Off /\ BK_Off /\ SE_Off /\ RN_Off /\ PG_Off /\ RB_Off /\ RQ_Off /\ SR_Off /\ GP_Off

\* time passes
RL_Tick ==
    /\ rl_now < RL_MaxTime
    /\ rl_now' = rl_now + 1
    /\ UNCHANGED <<rl_impl, rl_made, rl_pc, rl_dom, rl_wake, rl_lock, rl_locks, rl_last,
                   rl_grants, rl_calls>>
    /\ RL_Frame

\* a thread calls wait_if_needed(domain) / _apply_rate_limit(url)
RL_Call(t, d) ==
    /\ rl_pc[t] = "idle"
    /\ rl_calls < RL_MaxCalls
    /\ rl_calls' = rl_calls + 1
    /\ rl_dom' = [rl_dom EXCEPT ![t] = d]
    /\ rl_pc' = [rl_pc EXCEPT ![t] =
                    IF rl_impl = "RateLimiter" THEN "want_map" ELSE "want_section"]
    /\ UNCHANGED <<rl_impl, rl_made, rl_now, rl_wake, rl_lock, rl_locks, rl_last, rl_grants>>
    /\ RL_Frame

\* with self._domain_lock: (enter)
RL_EnterMap(t) ==
    /\ rl_pc[t] = "want_map"
    /\ rl_lock["_domain_lock"] = 0
    /\ rl_lock' = [rl_lock EXCEPT !["_domain_lock"] = t]
    /\ rl_pc' = [rl_pc EXCEPT ![t] = "in_map"]
    /\ UNCHANGED <<rl_impl, rl_made, rl_now, rl_dom, rl_wake, rl_locks, rl_last, rl_grants,
                   rl_calls>>
    /\ RL_Frame

\* create the domain's lock and timestamp if absent, pick the lock, leave
RL_LeaveMap(t) ==
    /\ rl_pc[t] = "in_map"
    /\ rl_locks' = rl_locks \cup {rl_dom[t]}
    /\ rl_last' = IF LockMissing(rl_locks, rl_dom[t])
                  THEN [rl_last EXCEPT ![rl_dom[t]] = 0] ELSE rl_last
    /\ rl_made' = IF LockMissing(rl_locks, rl_dom[t])
                  THEN [rl_made EXCEPT ![rl_dom[t]] = @ + 1] ELSE rl_made
    /\ rl_lock' = [rl_lock EXCEPT !["_domain_lock"] = 0]
    /\ rl_pc' = [rl_pc EXCEPT ![t] = "want_section"]
    /\ UNCHANGED <<rl_impl, rl_now, rl_dom, rl_wake, rl_grants, rl_calls>>
    /\ RL_Frame

\* with domain_lock: / with self.per_domain_lock: (enter)
RL_EnterSection(t) ==
    /\ rl_pc[t] = "want_section"
    /\ rl_lock[SectionLock(t)] = 0
    /\ rl_lock' = [rl_lock EXCEPT ![SectionLock(t)] = t]
    /\ rl_pc' = [rl_pc EXCEPT ![t] = "read"]
    /\ UNCHANGED <<rl_impl, rl_made, rl_now, rl_dom, rl_wake, rl_locks, rl_last, rl_grants,
                   rl_calls>>
    /\ RL_Frame

\* current_time = time.time(); compute the sleep time
RL_Read(t) ==
    /\ rl_pc[t] = "read"
    /\ LET s == SleepTime(rl_last[rl_dom[t]], rl_now) IN
         /\ rl_wake' = [rl_wake EXCEPT ![t] = s]
         /\ rl_pc' = [rl_pc EXCEPT ![t] = IF s > 0 THEN "sleep" ELSE "write"]
    /\ UNCHANGED <<rl_impl, rl_made, rl_now, rl_dom, rl_lock, rl_locks, rl_last, rl_grants,
                   rl_calls>>
    /\ RL_Frame

\* time.sleep(sleep_time) begins: it ends no earlier than sleep_time from now
RL_SleepStart(t) ==
    /\ rl_pc[t] = "sleep"
    /\ rl_wake' = [rl_wake EXCEPT ![t] = rl_now + rl_wake[t]]
    /\ rl_pc' = [rl_pc EXCEPT ![t] = "sleeping"]
    /\ UNCHANGED <<rl_impl, rl_made, rl_now, rl_dom, rl_lock, rl_locks, rl_last, rl_grants,
                   rl_calls>>
    /\ RL_Frame

RL_SleepEnd(t) ==
    /\ rl_pc[t] = "sleeping"
    /\ rl_now >= rl_wake[t]
    /\ rl_wake' = [rl_wake EXCEPT ![t] = 0]
    /\ rl_pc' = [rl_pc EXCEPT ![t] = "write"]
    /\ UNCHANGED <<rl_impl, rl_made, rl_now, rl_dom, rl_lock, rl_locks, rl_last, rl_grants,
                   rl_calls>>
    /\ RL_Frame

\* last[domain] = time.time(): the acquisition is granted; leave the section
RL_Grant(t) ==
    /\ rl_pc[t] = "write"
    /\ rl_last' = [rl_last EXCEPT ![rl_dom[t]] = rl_now]
    /\ rl_grants' = [rl_grants EXCEPT ![rl_dom[t]] = Append(@, rl_now)]
    /\ rl_lock' = [rl_lock EXCEPT ![SectionLock(t)] = 0]
    /\ rl_pc' = [rl_pc EXCEPT ![t] = "idle"]
    /\ UNCHANGED <<rl_impl, rl_made, rl_now, rl_dom, rl_wake, rl_locks, rl_calls>>
    /\ RL_Frame

RL_Next ==
    \/ RL_Tick
    \/ \E t \in Threads, d \in Domains : RL_Call(t, d)
    \/ \E t \in Threads : RL_EnterMap(t)
    \/ \E t \in Threads : RL_LeaveMap(t)
    \/ \E t \in Threads : RL_EnterSection(t)
    \/ \E t \in Threads : RL_Read(t)
    \/ \E t \in Threads : RL_SleepStart(t)
    \/ \E t \in Threads : RL_SleepEnd(t)
    \/ \E t \in Threads : RL_Grant(t)

SpecRate == RL_Init /\ [][RL_Next]_vars

\* C3: two consecutive acquisitions granted for one domain are at least the
\* configured minimum interval apart, for any number of callers.
C3_GrantsSpaced ==
    \A d \in Domains : \A i \in 1..(Len(rl_grants[d]) - 1) :
        rl_grants[d][i + 1] - rl_grants[d][i] >= Interval

\* two grants for one domain, the second after its caller slept
C3_Witness ==
    \E d \in Domains :
        /\ Len(rl_grants[d]) >= 2
        /\ rl_grants[d][2] - rl_grants[d][1] = Interval

\* the threads inside the read-sleep-write section for a domain
InSection(d) ==
    {t \in Threads : rl_dom[t] = d /\ rl_pc[t] \in {"read", "sleep", "sleeping", "write"}}

C4_NoCrossDomainWait ==
    \A t1, t2 \in Threads :
        ~ ( /\ rl_pc[t1] \in {"sleep", "sleeping"}
            /\ rl_pc[t2] = "want_section"
            /\ rl_dom[t1] # rl_dom[t2]
            /\ rl_lock[SectionLock(t2)] = t1 )


RL_Off ==
    /\ rl_impl = "off" /\ rl_now = 0 /\ rl_calls = 0 /\ rl_locks = {}
    /\ rl_pc = [t \in Threads |-> "idle"]
    /\ rl_dom = [t \in Threads |-> "a.edu"]
    /\ rl_wake = [t \in Threads |-> 0]
    /\ rl_lock = [l \in LockNames |-> 0]
    /\ rl_last = [d \in Domains |-> 0]
    /\ rl_grants = [d \in Domains |-> <<>>]
    /\ rl_made = [d \in Domains |-> 0]

(***************************************************************************)
(* Text: names are sequences of words joined by single spaces, URLs are    *)
(* taken from a few samples.  The operators below are what the string      *)
(* methods and regular expressions of the source compute on them.          *)
(***************************************************************************)
Words == {"Harvard", "University", "The", "Top", "college", "MIT"}
\* the prefixes the NER-guided strategies put before an entity's text
PrefixWords == {"Scholarship:", "Program:"}

\* str.lower() of a word
Lower(w) ==
    CASE w = "Harvard" -> "harvard"
      [] w = "University" -> "university"
      [] w = "The" -> "the"
      [] w = "Top" -> "top"
      [] w = "college" -> "college"
      [] w = "Scholarship:" -> "scholarship:"
      [] w = "MIT" -> "mit"
      [] w = "Program:" -> "program:"
      [] w = "Universities" -> "universities"
      [] OTHER -> w

\* len() of a word
WordLen(w) ==
    CASE w = "Harvard" -> 7
      [] w = "University" -> 10
      [] w = "The" -> 3
      [] w = "Top" -> 3
      [] w = "college" -> 7
      [] w = "Scholarship:" -> 12
      [] w = "MIT" -> 3
      [] w = "Program:" -> 8
      [] w = "Universities" -> 12
      [] OTHER -> 0

\* re.sub(r'[^\w\s]', '', word): punctuation removed from a lowercased word
StripPunct(lw) ==
    CASE lw = "scholarship:" -> "scholarship"
      [] lw = "program:" -> "program"
      [] OTHER -> lw

\* word[0].isupper()
StartsUpper(w) ==
    w \in {"Harvard", "University", "Universities", "The", "Top", "Scholarship:",
           "Program:", "MIT"}

RECURSIVE SumLen(_)
SumLen(name) == IF name = <<>> THEN 0 ELSE WordLen(Head(name)) + SumLen(Tail(name))

\* len(name) of the joined string
NameLen(name) == IF name = <<>> THEN 0 ELSE SumLen(name) + (Len(name) - 1)

\* name.lower()
LowerName(name) == [i \in 1..Len(name) |-> Lower(name[i])]

\* sample URLs; "" is the missing URL
Urls == {"", "www.harvard.edu", "https://harvard.edu", "https://harvard.edu/about",
         "https://news.example.com/harvard", "https://news.example.com/education"}

\* urlparse(url).netloc.lower(): empty for a URL without a scheme
Host(u) ==
    CASE u \in {"https://harvard.edu", "https://harvard.edu/about"} -> "harvard.edu"
      [] u \in {"https://news.example.com/harvard",
                "https://news.example.com/education",
                "https://news.example.com/page3",
                "https://news.example.com/page4",
                "https://news.example.com/blog"} -> "news.example.com"
      [] OTHER -> ""

\* 'edu' in url
HasEdu(u) == u \in {"www.harvard.edu", "https://harvard.edu",
                    "https://harvard.edu/about", "https://news.example.com/education"}

(***************************************************************************)
(* Deduplication merge: _deduplicate_all_organizations                     *)
(***************************************************************************)
DD_MaxLen == 3

StopWords == {"the", "university", "college", "institute"}

\* the normalized name: lowercased, punctuation stripped, stop-words
\* removed, whitespace collapsed
RECURSIVE NormalizeName(_)
NormalizeName(name) ==
    IF name = <<>> THEN <<>>
    ELSE LET w == StripPunct(Lower(Head(name))) IN
         IF w \in StopWords THEN NormalizeName(Tail(name))
         ELSE <<w>> \o NormalizeName(Tail(name))

\* composite_key = f"{normalized_name}|{url_key}"
CompositeKey(o) == <<NormalizeName(o.name), IF o.url # "" THEN Host(o.url) ELSE "">>

\* the keys of name_groups in insertion order
RECURSIVE GroupKeys(_, _)
GroupKeys(orgs, seen) ==
    IF orgs = <<>> THEN <<>>
    ELSE LET k == CompositeKey(Head(orgs)) IN
         IF k \in seen THEN GroupKeys(Tail(orgs), seen)
         ELSE <<k>> \o GroupKeys(Tail(orgs), seen \cup {k})

\* name_groups[key]: the members in input order
RECURSIVE GroupOf(_, _)
GroupOf(orgs, k) ==
    IF orgs = <<>> THEN <<>>
    ELSE IF CompositeKey(Head(orgs)) = k
         THEN <<Head(orgs)>> \o GroupOf(Tail(orgs), k)
         ELSE GroupOf(Tail(orgs), k)

\* the comparison of a sort without reverse=True
RankLE(a, b) ==
    \/ a.conf < b.conf
    \/ a.conf = b.conf /\ NameLen(a.name) <= NameLen(b.name)

\* (confidence_score, len(name)) of a >= that of b, compared as tuples
RankGE(a, b) ==
    \/ a.conf > b.conf
    \/ a.conf = b.conf /\ NameLen(a.name) >= NameLen(b.name)

\* list.sort(key=..., reverse=True) is stable: an element goes after all
\* earlier elements whose key is >= its own
RECURSIVE InsertByRank(_, _)
InsertByRank(sorted, x) ==
    IF sorted = <<>> THEN <<x>>
    ELSE IF RankGE(Head(sorted), x)
         THEN <<Head(sorted)>> \o InsertByRank(Tail(sorted), x)
         ELSE <<x>> \o sorted

RECURSIVE SortByRank(_, _)
SortByRank(done, rest) ==
    IF rest = <<>> THEN done
    ELSE SortByRank(InsertByRank(done, Head(rest)), Tail(rest))

RECURSIVE InsertByConf(_, _)
InsertByConf(sorted, x) ==
    IF sorted = <<>> THEN <<x>>
    ELSE IF Head(sorted).conf >= x.conf
         THEN <<Head(sorted)>> \o InsertByConf(Tail(sorted), x)
         ELSE <<x>> \o sorted

RECURSIVE SortByConfFrom(_, _)
SortByConfFrom(done, rest) ==
    IF rest = <<>> THEN done
    ELSE SortByConfFrom(InsertByConf(done, Head(rest)), Tail(rest))

RECURSIVE Reverse(_)
Reverse(s) == IF s = <<>> THEN <<>> ELSE Reverse(Tail(s)) \o <<Head(s)>>

\* an ascending sort turned around: equal scores swap places
RECURSIVE InsertByConfAsc(_, _)
InsertByConfAsc(sorted, x) ==
    IF sorted = <<>> THEN <<x>>
    ELSE IF Head(sorted).conf <= x.conf
         THEN <<Head(sorted)>> \o InsertByConfAsc(Tail(sorted), x)
         ELSE <<x>> \o sorted

RECURSIVE SortByConfAscFrom(_, _)
SortByConfAscFrom(done, rest) ==
    IF rest = <<>> THEN done
    ELSE SortByConfAscFrom(InsertByConfAsc(done, Head(rest)), Tail(rest))

SortByConfReversed(orgs) == Reverse(SortByConfAscFrom(<<>>, orgs))

\* deduplicated.sort(key=lambda x: x.confidence_score, reverse=True)
SortByConf(orgs) == SortByConfFrom(<<>>, orgs)

\* one step of "for other in group[1:]": the winner takes the longer name of
\* a loser scoring >= 0.7, a URL if it has none, an 'edu' URL if its own has
\* no 'edu'
Absorb(best, other) ==
    LET named == IF NameLen(other.name) > NameLen(best.name) /\ other.conf >= 70
                 THEN [best EXCEPT !.name = other.name] ELSE best
    IN  IF best.url = "" /\ other.url # ""
        THEN [named EXCEPT !.url = other.url]
        ELSE IF other.url # "" /\ HasEdu(other.url) /\ ~HasEdu(best.url)
             THEN [named EXCEPT !.url = other.url]
             ELSE named

RECURSIVE AbsorbAll(_, _)
AbsorbAll(best, others) ==
    IF others = <<>> THEN best
    ELSE AbsorbAll(Absorb(best, Head(others)), Tail(others))

\* the representative of one group
Representative(group) ==
    IF Len(group) = 1 THEN group[1]
    ELSE LET sorted == SortByRank(<<>>, group)
         IN  AbsorbAll(Head(sorted), Tail(sorted))

\* every member kept: no representative is chosen
DeduplicateNothing(orgs) == SortByConf(orgs)

\* _deduplicate_all_organizations(organizations)
DeduplicateAll(orgs) ==
    IF orgs = <<>> THEN <<>>
    ELSE LET keys == GroupKeys(orgs, {})
         IN  SortByConf([i \in 1..Len(keys) |-> Representative(GroupOf(orgs, keys[i]))])

\* the candidates handed to the merge
DD_Names == {<<"Harvard">>, <<"The", "Harvard", "University">>}
DD_Urls == {"", "www.harvard.edu", "https://news.example.com/harvard",
            "https://news.example.com/education"}
DD_Confs == {60, 80}
DD_Orgs ==
    [name : DD_Names, url : DD_Urls, conf : DD_Confs, method : {"link_analysis"}]
    \cup [name : {<<"MIT">>}, url : {"https://news.example.com/harvard"},
          conf : {80}, method : {"link_analysis"}]
    \cup [name : {<<"The", "Harvard", "University">>}, url : {""},
          conf : {70}, method : {"table_extraction"}]

DD_Init ==
    /\ dd_pc = "build" /\ dd_input = <<>> /\ dd_once = <<>> /\ dd_twice = <<>>
    /\ RL_Off /\ CF_Off /\ CR_Off /\ FT_Off /\ BK_Off /\ SE_Off /\ RN_Off /\ PG_Off /\ RB_Off /\ RQ_Off /\ SR_Off /\ GP_Off

\* one more candidate is accumulated
DD_Add(o) ==
    /\ dd_pc = "build"
    /\ Len(dd_input) < DD_MaxLen
    /\ dd_input' = Append(dd_input, o)
    /\ UNCHANGED <<dd_pc, dd_once, dd_twice>>
    /\ DD_Frame

\* the merge runs over the accumulated list
DD_Merge ==
    /\ dd_pc = "build"
    /\ dd_once' = DeduplicateAll(dd_input)
    /\ dd_pc' = "merged"
    /\ UNCHANGED <<dd_input, dd_twice>>
    /\ DD_Frame

\* the merge runs over its own output
DD_MergeAgain ==
    /\ dd_pc = "merged"
    /\ dd_twice' = DeduplicateAll(dd_once)
    /\ dd_pc' = "remerged"
    /\ UNCHANGED <<dd_input, dd_once>>
    /\ DD_Frame

DD_Next ==
    \/ \E o \in DD_Orgs : DD_Add(o)
    \/ DD_Merge
    \/ DD_MergeAgain

SpecDedup == DD_Init /\ [][DD_Next]_vars

\* C8: merging the output of the merge again changes nothing: same members,
\* same field values, same order.
C8_MergeIdempotent == dd_pc = "remerged" => dd_twice = dd_once

\* a merge that removed a duplicate, absorbed a loser's name and left two
\* representatives with equal scores, merged again
C8_Witness ==
    /\ dd_pc = "remerged"
    /\ Len(dd_input) = 3
    /\ Len(dd_once) = 2
    /\ dd_once[1].conf = dd_once[2].conf
    /\ \E i \in 1..2 : \A j \in 1..3 : dd_once[i] # dd_input[j]

\* C9: no two organizations of the merged list have the same composite key,
\* the keys being computed on the output (after backfilling).
C9_KeysUnique ==
    dd_pc \in {"merged", "remerged"} =>
        \A i, j \in 1..Len(dd_once) :
            CompositeKey(dd_once[i]) = CompositeKey(dd_once[j]) => i = j

\* a group of two whose winner's name and URL were both replaced
C9_Witness ==
    /\ dd_pc = "merged"
    /\ Len(dd_input) = 2
    /\ Len(dd_once) = 1
    /\ dd_once[1].name = dd_input[2].name
    /\ dd_once[1].url = dd_input[2].url
    /\ dd_once[1].conf = dd_input[1].conf
    /\ dd_input[1].name # dd_input[2].name
    /\ dd_input[1].url # dd_input[2].url
    /\ dd_input[1].url # ""

\* the members of the input that share the composite key k
Members(k) == {i \in 1..Len(dd_input) : CompositeKey(dd_input[i]) = k}

\* the members of the group with the greatest (confidence, name length) pair
Greatest(k) ==
    {i \in Members(k) : \A j \in Members(k) : RankGE(dd_input[i], dd_input[j])}

\* C29: the representative of every group has the confidence and the
\* extraction method of a member with the greatest (confidence, name length)
\* pair: its confidence is the group's maximum and its name is at least as
\* long as that of every member with that confidence.
C29_BestMemberKept ==
    dd_pc = "merged" =>
        \A i \in 1..Len(dd_input) :
            LET k == CompositeKey(dd_input[i])
            IN  \E r \in 1..Len(dd_once) :
                    /\ CompositeKey(dd_once[r]) = k
                    /\ \E g \in Greatest(k) :
                           /\ dd_once[r].conf = dd_input[g].conf
                           /\ dd_once[r].method = dd_input[g].method
                    /\ \A j \in Members(k) :
                           /\ dd_once[r].conf >= dd_input[j].conf
                           /\ dd_input[j].conf = dd_once[r].conf
                                  => NameLen(dd_once[r].name) >= NameLen(dd_input[j].name)

\* a group of three: two members tied on the highest confidence with names
\* of different length, and a third of lower confidence
C29_Witness ==
    /\ dd_pc = "merged" /\ Len(dd_input) = 3 /\ Len(dd_once) = 1
    /\ dd_input[1].conf = 60 /\ dd_input[2].conf = 80 /\ dd_input[3].conf = 80
    /\ NameLen(dd_input[2].name) < NameLen(dd_input[3].name)
    /\ dd_once[1].conf = 80 /\ dd_once[1].name = dd_input[3].name

\* C30: the merge changes the winner of a group only by backfilling its URL:
\* name, confidence and extraction method stay, a missing URL is filled from
\* a loser, and a present URL gives way only to a loser's .edu-domain URL.
C30_WinnerOnlyBackfilled ==
    dd_pc = "merged" =>
        \A i \in 1..Len(dd_input) :
            LET k == CompositeKey(dd_input[i])
                w == Head(SortByRank(<<>>, GroupOf(dd_input, k)))
                EduDomain(u) == HasEdu(u) /\ u # "https://news.example.com/education"
            IN  \E r \in 1..Len(dd_once) :
                    /\ CompositeKey(dd_once[r]) = k
                    /\ dd_once[r].name = w.name
                    /\ dd_once[r].conf = w.conf
                    /\ dd_once[r].method = w.method
                    /\ \/ dd_once[r].url = w.url
                       \/ \E j \in Members(k) :
                              /\ dd_input[j].url = dd_once[r].url
                              /\ w.url = "" \/ EduDomain(dd_input[j].url)

(***************************************************************************)
(* Extraction: the confidence of a name and the strategies that turn one   *)
(* item of a page into a candidate organization.                           *)
(***************************************************************************)
CF_MaxWords == 3

\* words an exclude pattern anchored at the start of the name begins with
ExcludeAtStart == {"what", "how", "why", "when", "where", "can", "is", "are",
                   "do", "does", "will", "should", "best", "top", "cheapest",
                   "most", "ultimate", "complete", "comprehensive", "list",
                   "guide", "tips", "steps", "ways", "things", "exam", "test",
                   "coaching", "preparation", "knockout"}

\* words an unanchored exclude pattern finds anywhere in the name
ExcludeAnywhere == {"result", "counselling", "syllabus", "eligibility",
                    "criteria", "requirements", "fee", "fees", "cost",
                    "scholarship", "admission", "application", "visa",
                    "interview", "participate", "participating"}

\* the name matches one of exclude_patterns
ExcludedName(name) ==
    /\ name # <<>>
    /\ \/ Lower(name[1]) \in ExcludeAtStart
       \/ \E i \in 1..Len(name) : StripPunct(Lower(name[i])) \in ExcludeAnywhere

\* [A-Z][a-z]+ followed by white space
CapLower(w) == w \in {"Harvard", "University", "Universities", "The", "Top"}
\* [A-Z]{2,} followed by white space
AllCaps(w) == w = "MIT"
\* (University|College|Institute)
InstWord(w) == w \in {"University", "College", "Institute"}

\* any of institutional_patterns matches the name
IsInstitutionalName(name) ==
    \/ Len(name) >= 2 /\ CapLower(name[1]) /\ InstWord(name[2])
    \/ Len(name) >= 3 /\ name[1] = "University" /\ name[2] = "of"
                      /\ StartsUpper(name[3])
    \/ Len(name) >= 3 /\ CapLower(name[1]) /\ CapLower(name[2])
                      /\ InstWord(name[3])
    \/ Len(name) >= 2 /\ AllCaps(name[1]) /\ InstWord(name[2])

\* any of university_domains matches the URL (\.edu$ on the samples)
HasUniversityDomain(u) == u \in {"www.harvard.edu", "https://harvard.edu"}

\* an institutional keyword is a substring of the lowercased name
HasInstitutionalKeyword(name) ==
    \E i \in 1..Len(name) :
        StripPunct(Lower(name[i])) \in {"university", "college", "institute",
                                       "academy"}

\* 'best', 'top', 'list' or 'guide' is a substring of the lowercased name
HasArticleWord(name) ==
    \E i \in 1..Len(name) : Lower(name[i]) \in {"best", "top", "list", "guide"}

\* words that start with a capital and are longer than two characters
CapitalizedWords(name) ==
    Cardinality({i \in 1..Len(name) : StartsUpper(name[i]) /\ WordLen(name[i]) > 2})

\* any(content_indicators): too long, or a colon in the name
ContentIndicator(name) ==
    \/ NameLen(name) > 100
    \/ \E i \in 1..Len(name) : name[i] \in PrefixWords

Min(a, b) == IF a <= b THEN a ELSE b

\* the score before the content check and the threshold
RawConfidence(name, url) ==
    (IF IsInstitutionalName(name) THEN 60
     ELSE IF HasInstitutionalKeyword(name) /\ ~HasArticleWord(name) THEN 30
     ELSE 0)
    + (IF HasUniversityDomain(url) THEN 40 ELSE 0)
    + (IF Len(name) >= 2 /\ CapitalizedWords(name) >= 2 THEN 20 ELSE 0)

\* _calculate_academic_confidence(name, url, "")
CalculateAcademicConfidence(name, url) ==
    IF ExcludedName(name) THEN 0
    ELSE LET raw == RawConfidence(name, url)
             checked == IF raw >= 50 /\ ContentIndicator(name) THEN 0 ELSE raw
         IN  IF checked < 50 THEN 0
             ELSE IF HasUniversityDomain(url) THEN Min(Min(checked + 10, 100), 100)
             ELSE Min(checked, 100)

\* words a reject pattern anchored at the start of the text begins with
RejectAtStart == {"what", "how", "why", "when", "where", "can", "is", "are",
                  "do", "does", "will", "should", "which", "best", "top",
                  "cheapest", "most", "ultimate", "complete", "list", "guide",
                  "tips", "steps", "ways", "things", "exam", "test", "coaching",
                  "preparation", "knockout"}

\* words an unanchored reject pattern finds anywhere in the text
RejectAnywhere == {"result", "counselling", "syllabus", "eligibility",
                   "criteria", "requirements", "fee", "fees", "cost",
                   "admission", "application", "visa", "interview", "website",
                   "homepage"}

\* _looks_like_university_name(text)
LooksLikeUniversityName(text) ==
    /\ NameLen(text) >= 5 /\ NameLen(text) <= 100
    /\ Lower(text[1]) \notin RejectAtStart
    /\ \A i \in 1..Len(text) : StripPunct(Lower(text[i])) \notin RejectAnywhere
    /\ \E i \in 1..Len(text) :
           Lower(text[i]) \in {"university", "college", "institute", "academy"}
    /\ CapitalizedWords(text) >= 2

\* _is_valid_http_url(url): an http(s) scheme and a host
IsValidHttpUrl(u) == Host(u) # ""

Candidate(name, url, conf, method) ==
    [name |-> name, url |-> url, conf |-> conf, method |-> method]

\* the bonus _extract_from_structured_data adds to the computed score
StructuredDataBonus(c) == c + 20

\* _extract_from_structured_data on one JSON-LD entry with this name and url
FromStructuredData(name, url) ==
    LET c == CalculateAcademicConfidence(name, url)
    IN  IF name # <<>> /\ url # "" /\ c >= 50
        THEN <<Candidate(name, url, StructuredDataBonus(c), "structured_data")>>
        ELSE <<>>

\* _extract_from_links on one link with this text and absolute target
FromLink(text, url, source) ==
    LET c == CalculateAcademicConfidence(text, url)
    IN  IF text # <<>> /\ IsValidHttpUrl(url) /\ Host(url) # Host(source) /\ c >= 70
        THEN <<Candidate(text, url, c, "link_analysis")>>
        ELSE <<>>

\* _extract_from_tables_lists on one table cell link
FromTable(text, url) ==
    LET c == CalculateAcademicConfidence(text, url)
    IN  IF IsValidHttpUrl(url) /\ c >= 70
        THEN <<Candidate(text, url, c, "table_extraction")>>
        ELSE <<>>

\* _extract_universities_from_blog_content on one heading, url "" without link
FromBlogHeading(text, url) ==
    LET c == CalculateAcademicConfidence(text, url)
    IN  IF text # <<>> /\ LooksLikeUniversityName(text) /\ c >= 70
        THEN <<Candidate(text, url, c, "blog_content_heading")>>
        ELSE <<>>

\* _extract_from_ner_universities: the entity's text and the link that shows it
FromNerUniversity(entity, url) ==
    IF url # "" /\ IsValidHttpUrl(url)
    THEN <<Candidate(entity, url, 90, "ner_guided")>>
    ELSE <<>>

\* _extract_from_ner_programs: an entity the page's text mentions
FromNerProgram(entity, source) ==
    <<Candidate(<<"Program:">> \o entity, source, 70, "ner_program")>>

\* the name _extract_from_ner_scholarships gives the candidate
ScholarshipName(entity) == <<"Scholarship:">> \o entity

\* _extract_from_ner_scholarships: the entity's link, else the page itself
FromNerScholarship(entity, url, source) ==
    <<Candidate(ScholarshipName(entity), IF url # "" THEN url ELSE source, 80,
                "ner_scholarship")>>

\* any(name in org_name_lower for name in names): names are single words
QueryMatch(names, name) ==
    \E i \in 1..Len(name) : StripPunct(Lower(name[i])) \in names

\* _calculate_ner_enhanced_confidence(org, url_entities, query_entities)
NerEnhancedConfidence(org, query) ==
    Min(org.conf
        + (IF QueryMatch(query.universities, org.name) THEN 20 ELSE 0)
        + (IF QueryMatch(query.programs, org.name) THEN 15 ELSE 0)
        + (IF QueryMatch(query.scholarships, org.name) THEN 15 ELSE 0)
        + (IF org.method \in {"ner_guided", "ner_program", "ner_scholarship"}
           THEN 10 ELSE 0),
        100)

\* every candidate rescored, as the loop that ends _enhance_extraction_with_ner
EnhanceAll(orgs, query) ==
    [i \in 1..Len(orgs) |-> [orgs[i] EXCEPT !.conf = NerEnhancedConfidence(orgs[i], query)]]

\* scrape_url: the NER path rescores what the page strategies found
PageCandidates(orgs) == IF cf_ner THEN EnhanceAll(orgs, cf_query) ELSE orgs

\* the page the item is on
SourceUrl == "https://news.example.com/education"

NamesUpTo(n) == UNION {[1..k -> Words] : k \in 1..n}
CF_Queries ==
    {NoQuery,
     [universities |-> {"harvard"}, programs |-> {}, scholarships |-> {}],
     [universities |-> {"harvard"}, programs |-> {"mit"},
      scholarships |-> {"harvard"}]}

CF_Init ==
    /\ cf_pc = "item"
    /\ cf_name \in NamesUpTo(CF_MaxWords)
    /\ cf_url \in Urls
    /\ cf_query \in CF_Queries
    /\ cf_ner \in BOOLEAN
    /\ cf_out = <<>>
    /\ RL_Off /\ DD_Off /\ CR_Off /\ FT_Off /\ BK_Off /\ SE_Off /\ RN_Off /\ PG_Off /\ RB_Off /\ RQ_Off /\ SR_Off /\ GP_Off

CF_Done(out) ==
    /\ cf_pc' = "done"
    /\ cf_out' = out
    /\ UNCHANGED <<cf_name, cf_url, cf_query, cf_ner>>
    /\ CF_Frame

\* the item is a JSON-LD entry
CF_StructuredData ==
    /\ cf_pc = "item"
    /\ CF_Done(PageCandidates(FromStructuredData(cf_name, cf_url)))

\* the item is a link
CF_Link ==
    /\ cf_pc = "item" /\ Host(cf_url) # ""
    /\ CF_Done(PageCandidates(FromLink(cf_name, cf_url, SourceUrl)))

\* the item is a link in the first cell of a table row
CF_Table ==
    /\ cf_pc = "item" /\ Host(cf_url) # ""
    /\ CF_Done(PageCandidates(FromTable(cf_name, cf_url)))

\* the item is a heading of a blog article, read by the second pass
CF_BlogHeading ==
    /\ cf_pc = "item" /\ (cf_url = "" \/ Host(cf_url) # "")
    /\ CF_Done(FromBlogHeading(cf_name, cf_url))

\* the item is a university entity and the link that shows its text
CF_NerUniversity ==
    /\ cf_pc = "item" /\ cf_ner /\ (cf_url = "" \/ Host(cf_url) # "")
    /\ CF_Done(EnhanceAll(FromNerUniversity(cf_name, cf_url), cf_query))

\* the item is a program entity
CF_NerProgram ==
    /\ cf_pc = "item" /\ cf_ner
    /\ CF_Done(EnhanceAll(FromNerProgram(cf_name, SourceUrl), cf_query))

\* the item is a scholarship entity
CF_NerScholarship ==
    /\ cf_pc = "item" /\ cf_ner /\ (cf_url = "" \/ Host(cf_url) # "")
    /\ CF_Done(EnhanceAll(FromNerScholarship(cf_name, cf_url, SourceUrl), cf_query))

CF_Next ==
    \/ CF_StructuredData
    \/ CF_Link
    \/ CF_Table
    \/ CF_BlogHeading
    \/ CF_NerUniversity
    \/ CF_NerProgram
    \/ CF_NerScholarship

SpecConf == CF_Init /\ [][CF_Next]_vars

\* C5: every candidate a strategy produces has a confidence from 0 to 1,
\* bonuses included.
C5_ConfidenceInRange ==
    \A i \in 1..Len(cf_out) : cf_out[i].conf >= 0 /\ cf_out[i].conf <= 100

\* C6: a candidate whose name matches an exclude pattern has confidence 0,
\* whichever strategy made it.
C6_ExcludedScoresZero ==
    \A i \in 1..Len(cf_out) : ExcludedName(cf_out[i].name) => cf_out[i].conf = 0

(***************************************************************************)
(* One run of search_and_crawl: the worker pool of _crawl_urls, the blog   *)
(* pass, the exact-key de-duplication and the merge of discovery results.  *)
(***************************************************************************)
CR_MaxUrls == 3
CR_Workers == 2

\* the URLs of the search results, in rank order
SearchUrl(i) ==
    CASE i = 1 -> "https://news.example.com/education"
      [] i = 2 -> "https://news.example.com/harvard"
      [] i = 3 -> "https://news.example.com/page3"
      [] OTHER -> "https://news.example.com/page4"

\* the article every listicle link points to
BlogUrl == "https://news.example.com/blog"

\* an href urljoin() rejects with ValueError
BadHref == "http://["

\* what a URL can serve: no response on any attempt, a robots.txt that
\* disallows it, or a page with these links and entities
PageKinds == {"down", "blocked", "harvard", "mit", "listicle", "broken", "award"}
BlogKinds == {"down", "headings", "badhref"}

\* fetch_url returns a soup
Fetched(kind) == kind \notin {"down", "blocked"}

\* the <a href> elements of the page
PageLinks(kind) ==
    CASE kind = "harvard" ->
           <<[text |-> <<"Harvard", "University">>, href |-> "https://harvard.edu"]>>
      [] kind = "mit" ->
           <<[text |-> <<"MIT", "University">>, href |-> "https://harvard.edu/about"]>>
      [] kind = "listicle" ->
           <<[text |-> <<"Top", "Universities">>, href |-> BlogUrl]>>
      [] kind = "broken" ->
           <<[text |-> <<"Harvard", "University">>, href |-> BadHref]>>
      [] OTHER -> <<>>

\* url_entities.scholarships of the page
PageScholarships(kind) == IF kind = "award" THEN <<<<"Harvard">>>> ELSE <<>>

\* urljoin(source_url, href) raises for one of the links
UrlJoinRaises(links) == \E i \in 1..Len(links) : links[i].href = BadHref

RECURSIVE FromLinks(_, _)
\* _extract_from_links over the links of the page
FromLinks(links, source) ==
    IF links = <<>> THEN <<>>
    ELSE FromLink(Head(links).text, Head(links).href, source)
         \o FromLinks(Tail(links), source)

\* f"{org.name.lower().strip()}|{org.url}"
ExactKey(o) == <<LowerName(o.name), o.url>>

RECURSIVE ExactDedupFrom(_, _)
\* the unique_organizations dictionary: first position, higher score
ExactDedupFrom(done, rest) ==
    IF rest = <<>> THEN done
    ELSE LET o == Head(rest)
             hit == {i \in 1..Len(done) : ExactKey(done[i]) = ExactKey(o)}
         IN  IF hit = {} THEN ExactDedupFrom(Append(done, o), Tail(rest))
             ELSE LET i == CHOOSE j \in hit : TRUE
                  IN  ExactDedupFrom(IF o.conf > done[i].conf
                                     THEN [done EXCEPT ![i] = o] ELSE done,
                                     Tail(rest))

ExactDedup(orgs) == ExactDedupFrom(<<>>, orgs)

\* _extract_organizations_from_soup
ExtractOrganizationsFromSoup(kind, source) ==
    ExactDedup(FromLinks(PageLinks(kind), source))

RECURSIVE FromScholarships(_, _)
\* _extract_from_ner_scholarships over the entities, none of them linked
FromScholarships(entities, source) ==
    IF entities = <<>> THEN <<>>
    ELSE FromNerScholarship(Head(entities), "", source)
         \o FromScholarships(Tail(entities), source)

\* _enhance_extraction_with_ner, the query without entities of its own
EnhanceExtractionWithNer(kind, source) ==
    IF PageScholarships(kind) = <<>> THEN ExtractOrganizationsFromSoup(kind, source)
    ELSE EnhanceAll(FromScholarships(PageScholarships(kind), source)
                    \o ExtractOrganizationsFromSoup(kind, source), NoQuery)

\* a word of the title is one of these
HasWord(title, ws) == \E i \in 1..Len(title) : Lower(title[i]) \in ws

\* _classify_general_content(title, ...).content_type, "none" for None
ClassifyGeneralContent(title) ==
    IF HasWord(title, {"best", "top", "guide", "tips"}) THEN "blog_post"
    ELSE IF HasWord(title, {"home", "about", "contact", "menu"}) THEN "navigation"
    ELSE IF HasWord(title, {"programs", "courses", "list", "directory"}) THEN "directory"
    ELSE "none"

\* _is_university_list_article(title): best|top ... universities|colleges|schools
IsUniversityListArticle(title) ==
    \E i, j \in 1..Len(title) :
        /\ i < j
        /\ Lower(title[i]) \in {"best", "top"}
        /\ Lower(title[j]) \in {"universities", "colleges", "schools"}

RECURSIVE ExtractGeneralContent(_)
\* _extract_general_content over the links of the page
ExtractGeneralContent(links) ==
    IF links = <<>> THEN <<>>
    ELSE LET l == Head(links)
             type == ClassifyGeneralContent(l.text)
         IN  (IF /\ IsValidHttpUrl(l.href) /\ l.text # <<>>
                 /\ CalculateAcademicConfidence(l.text, l.href) < 50
                 /\ type # "none"
              THEN <<[title |-> l.text, url |-> l.href, content_type |-> type]>>
              ELSE <<>>)
             \o ExtractGeneralContent(Tail(links))

\* process_url(result): organizations, general content and the failed URL
\* ("" for None) of one search result
ProcessUrl(kind, url) ==
    IF ~Fetched(kind) THEN [orgs |-> <<>>, content |-> <<>>, failed |-> ""]
    ELSE IF UrlJoinRaises(PageLinks(kind))
    THEN [orgs |-> <<>>, content |-> <<>>, failed |-> url]
    ELSE [orgs |-> EnhanceExtractionWithNer(kind, url),
          content |-> ExtractGeneralContent(PageLinks(kind)),
          failed |-> ""]

\* the headings of the blog article
BlogHeadings(kind) ==
    CASE kind = "headings" -> <<[text |-> <<"MIT", "University">>, href |-> ""]>>
      [] kind = "badhref" -> <<[text |-> <<"Harvard", "University">>, href |-> BadHref]>>
      [] OTHER -> <<>>

RECURSIVE FromHeadings(_)
FromHeadings(hs) ==
    IF hs = <<>> THEN <<>>
    ELSE FromBlogHeading(Head(hs).text, Head(hs).href) \o FromHeadings(Tail(hs))

\* the content item is followed by _scrape_universities_from_blog_posts
Followed(c) == c.content_type = "blog_post" /\ IsUniversityListArticle(c.title)

\* _scrape_universities_from_blog_posts raises on this general content
BlogPassRaises(content, blog) ==
    /\ \E i \in 1..Len(content) : Followed(content[i])
    /\ Fetched(blog)
    /\ \E i \in 1..Len(BlogHeadings(blog)) :
           /\ LooksLikeUniversityName(BlogHeadings(blog)[i].text)
           /\ BlogHeadings(blog)[i].href = BadHref

RECURSIVE BlogOrganizations(_, _)
\* what _scrape_universities_from_blog_posts returns when it does not raise
BlogOrganizations(content, blog) ==
    IF content = <<>> THEN <<>>
    ELSE (IF Followed(Head(content)) /\ Fetched(blog)
          THEN FromHeadings(BlogHeadings(blog)) ELSE <<>>)
         \o BlogOrganizations(Tail(content), blog)

RECURSIVE BlogFetches(_, _)
\* the URLs _scrape_universities_from_blog_posts calls fetch_url with: the url
\* of every followed item, up to the one whose article makes the pass raise
BlogFetches(content, blog) ==
    IF content = <<>> THEN <<>>
    ELSE IF ~Followed(Head(content)) THEN BlogFetches(Tail(content), blog)
    ELSE IF BlogPassRaises(<<Head(content)>>, blog) THEN <<Head(content).url>>
    ELSE <<Head(content).url>> \o BlogFetches(Tail(content), blog)

\* what convert_to_organizations hands over when discovery found a university
Discovered ==
    <<Candidate(<<"Harvard", "University">>, "https://harvard.edu", 90,
                "university_discovery")>>

BatchUrls == 1..CR_MaxUrls

CR_Init ==
    /\ cr_pc = "pool"
    /\ cr_page \in [BatchUrls -> PageKinds]
    /\ cr_blog \in BlogKinds
    /\ cr_disc \in {<<>>, Discovered}
    /\ cr_state = [i \in BatchUrls |-> "queued"]
    /\ cr_orgs = <<>> /\ cr_content = <<>> /\ cr_failed = <<>> /\ cr_result = <<>>
    /\ cr_fetches = <<>> /\ cr_merges = 0
    /\ RL_Off /\ DD_Off /\ CF_Off /\ FT_Off /\ BK_Off /\ SE_Off /\ RN_Off /\ PG_Off /\ RB_Off /\ RQ_Off /\ SR_Off /\ GP_Off

\* a free worker of the pool takes the next submitted URL
CR_Start(i) ==
    /\ cr_pc = "pool" /\ cr_state[i] = "queued"
    /\ \A j \in BatchUrls : j < i => cr_state[j] # "queued"
    /\ Cardinality({j \in BatchUrls : cr_state[j] = "running"}) < CR_Workers
    /\ cr_state' = [cr_state EXCEPT ![i] = "running"]
    /\ cr_fetches' = Append(cr_fetches, SearchUrl(i))
    /\ UNCHANGED cr_merges
    /\ UNCHANGED <<cr_pc, cr_page, cr_blog, cr_disc, cr_orgs, cr_content,
                   cr_failed, cr_result>>
    /\ CR_Frame

\* the URL's future completes and as_completed hands it to the loop
CR_Complete(i) ==
    /\ cr_pc = "pool" /\ cr_state[i] = "running"
    /\ LET r == ProcessUrl(cr_page[i], SearchUrl(i))
       IN  IF r.failed # ""
           THEN /\ cr_failed' = Append(cr_failed, r.failed)
                /\ UNCHANGED <<cr_orgs, cr_content>>
           ELSE /\ cr_orgs' = cr_orgs \o r.orgs
                /\ cr_content' = cr_content \o r.content
                /\ UNCHANGED cr_failed
    /\ cr_state' = [cr_state EXCEPT ![i] = "collected"]
    /\ UNCHANGED <<cr_pc, cr_page, cr_blog, cr_disc, cr_result, cr_fetches,
                   cr_merges>>
    /\ CR_Frame

\* the pool is drained and the blog posts are followed
CR_BlogPass ==
    /\ cr_pc = "pool" /\ \A i \in BatchUrls : cr_state[i] = "collected"
    /\ IF BlogPassRaises(cr_content, cr_blog)
       THEN cr_pc' = "raised" /\ UNCHANGED cr_orgs
       ELSE /\ cr_pc' = "dedup"
            /\ cr_orgs' = cr_orgs \o BlogOrganizations(cr_content, cr_blog)
    /\ cr_fetches' = cr_fetches \o BlogFetches(cr_content, cr_blog)
    /\ UNCHANGED cr_merges
    /\ UNCHANGED <<cr_page, cr_blog, cr_disc, cr_state, cr_content, cr_failed,
                   cr_result>>
    /\ CR_Frame

\* _crawl_urls returns the CrawlResult
CR_Return ==
    /\ cr_pc = "dedup"
    /\ cr_result' = ExactDedup(cr_orgs)
    /\ cr_pc' = "merge"
    /\ UNCHANGED <<cr_page, cr_blog, cr_disc, cr_state, cr_orgs, cr_content,
                   cr_failed, cr_fetches, cr_merges>>
    /\ CR_Frame

\* step 10 of search_and_crawl
CR_Merge ==
    /\ cr_pc = "merge"
    /\ cr_result' = IF cr_disc # <<>> THEN DeduplicateAll(cr_result \o cr_disc)
                    ELSE cr_result
    /\ cr_merges' = IF cr_disc # <<>> THEN cr_merges + 1 ELSE cr_merges
    /\ cr_pc' = "done"
    /\ UNCHANGED <<cr_page, cr_blog, cr_disc, cr_state, cr_orgs, cr_content,
                   cr_failed, cr_fetches>>
    /\ CR_Frame

CR_Next ==
    \/ \E i \in BatchUrls : CR_Start(i)
    \/ \E i \in BatchUrls : CR_Complete(i)
    \/ CR_BlogPass
    \/ CR_Return
    \/ CR_Merge

SpecCrawl == CR_Init /\ [][CR_Next]_vars

\* the elements of a sequence
Range(seq) == {seq[i] : i \in 1..Len(seq)}

\* C1: when every URL of the batch either fails on every fetch attempt or is
\* served and extracted, failed_urls holds exactly the URLs whose fetch
\* failed, each once, and the candidates of the served URLs are accumulated.
C1_FailedUrlsExact ==
    (/\ cr_pc \in {"merge", "done"}
     /\ \A i \in BatchUrls : cr_page[i] \notin {"broken", "blocked"})
    => /\ Range(cr_failed) = {SearchUrl(i) : i \in {j \in BatchUrls : cr_page[j] = "down"}}
       /\ Len(cr_failed) = Cardinality(Range(cr_failed))
       /\ \A i \in BatchUrls :
              Range(ProcessUrl(cr_page[i], SearchUrl(i)).orgs) \subseteq Range(cr_orgs)

\* C2: a failure on one URL, in the pool or in the blog pass, never aborts
\* the crawl.
C2_CrawlNeverAborts == cr_pc # "raised"

\* C7: no organization of the returned result has a name that matches an
\* exclude pattern.
C7_NoExcludedInResult ==
    cr_pc = "done" => \A i \in 1..Len(cr_result) : ~ExcludedName(cr_result[i].name)

\* C10: the organizations of the returned result are in descending order of
\* confidence.
C10_ResultSorted ==
    cr_pc = "done" =>
        \A i \in 1..Len(cr_result) : \A j \in 1..Len(cr_result) :
            i < j => cr_result[i].conf >= cr_result[j].conf

RECURSIVE CollectInOrder(_, _)
\* organizations and general_content after the as_completed loop has taken
\* the futures in this order
CollectInOrder(order, acc) ==
    IF order = <<>> THEN acc
    ELSE LET r == ProcessUrl(cr_page[Head(order)], SearchUrl(Head(order)))
         IN  CollectInOrder(Tail(order),
                            IF r.failed # "" THEN acc
                            ELSE [orgs |-> acc.orgs \o r.orgs,
                                  content |-> acc.content \o r.content])

\* the organizations search_and_crawl returns when the futures complete in
\* this order and the blog pass does not raise
ResultInOrder(order) ==
    LET c == CollectInOrder(order, [orgs |-> <<>>, content |-> <<>>])
        crawled == ExactDedup(c.orgs \o BlogOrganizations(c.content, cr_blog))
    IN  IF cr_disc # <<>> THEN DeduplicateAll(crawled \o cr_disc) ELSE crawled

\* the futures complete in the order they were submitted
RankOrder == [i \in 1..CR_MaxUrls |-> i]

\* C11: the returned organizations are those of any other completion order
\* of the same pages, here the order of submission.
C11_ResultOrderIndependent ==
    cr_pc = "done" => cr_result = ResultInOrder(RankOrder)

\* C20: a URL whose request has ended (extracted, failed or blocked) is not
\* fetched again in the same crawl: fetch_url is called at most once per URL
\* over the main pass and the blog pass.
C20_NoRefetch ==
    \A i, j \in 1..Len(cr_fetches) : cr_fetches[i] = cr_fetches[j] => i = j

\* C21: the global merge (_deduplicate_all_organizations) runs exactly once in
\* a crawl that returns, and only when every request of the batch has ended
\* and the blog pass is over.
C21_MergeOnceAtEnd ==
    /\ cr_merges <= 1
    /\ cr_merges > 0 =>
           /\ \A i \in BatchUrls : cr_state[i] = "collected"
           /\ cr_pc = "done"
    /\ cr_pc = "done" => cr_merges = 1

\* C26: a crawl in which every fetch failed returns no organizations and a
\* non-empty failed_urls; a crawl in which every page was fetched and handled
\* but gave no organization returns an empty failed_urls.
C26_FailureDistinct ==
    (cr_pc = "done" /\ cr_disc = <<>>) =>
        /\ (\A i \in BatchUrls : cr_page[i] = "down")
               => cr_result = <<>> /\ cr_failed # <<>>
        /\ ((\A i \in BatchUrls : /\ Fetched(cr_page[i])
                                   /\ ~UrlJoinRaises(PageLinks(cr_page[i])))
            /\ cr_result = <<>>)
               => cr_failed = <<>>

BK_MaxAttempt == 5

RECURSIVE Pow(_, _)
Pow(b, e) == IF e = 0 THEN 1 ELSE b * Pow(b, e - 1)

\* one second in delay units
Second == Pow(2, BK_MaxAttempt)

(***************************************************************************)
(* fetch_url: the robots gate, the rate limiter and the GET attempts, for  *)
(* successive calls on URLs of one origin.                                 *)
(***************************************************************************)
FT_MaxCalls == 2

\* BaseCrawler.max_retries / config.crawler.max_retries
MaxRetries == 3

\* what a request for robots.txt can meet: a file that disallows /private/,
\* a network error, an HTTP error status, or a server that accepts the
\* connection and never answers
RobotsKinds ==
    {"rules", "unreachable", "http403", "http404", "http500", "stalled"}

\* rp.read() comes back (by returning or by raising): it opens the URL
\* without a timeout, so it waits for as long as the server stays silent
ReadEnds(robots) == robots # "stalled"

\* the paths fetched on the origin
Paths == {"/page", "/private/page"}

\* rp.read() raises; only a failure below HTTP does, RobotFileParser.read
\* takes an HTTP error status without raising
ReadRaises(robots) == robots = "unreachable"

\* the parser rp.read() leaves behind when it returns: the parsed rules,
\* disallow_all for 401/403, allow_all for another 4xx, nothing read otherwise
ParserAfterRead(robots) ==
    CASE robots = "rules" -> "parsed"
      [] robots = "http403" -> "disallow_all"
      [] robots = "http404" -> "allow_all"
      [] OTHER -> "unread"

\* rp.can_fetch(agent, url) always answering yes
RobotParserAllowsAll(parser, path) == TRUE
\* rp.can_fetch(agent, url)
RobotParserCanFetch(parser, path) ==
    CASE parser = "disallow_all" -> FALSE
      [] parser = "allow_all" -> TRUE
      [] parser = "unread" -> FALSE
      [] OTHER -> path # "/private/page"

\* robot_parsers[domain] after the lookup-or-read of can_fetch
CacheAfterLookup(cache, robots) ==
    IF cache # "absent" THEN cache
    ELSE IF ReadRaises(robots) THEN "None" ELSE ParserAfterRead(robots)

\* AcademicWebCrawler.can_fetch(url), which does not read robots_respect
CanFetch(cache, robots, path) ==
    LET rp == CacheAfterLookup(cache, robots)
    IN  rp = "None" \/ RobotParserCanFetch(rp, path)

\* the GET attempts one call may make
AttemptLimit(impl) == IF impl = "WebUtils" THEN MaxRetries + 1 ELSE MaxRetries

\* the rate_limiting sections tried: the defaults, a max_delay of one
\* second, a min_interval of two seconds
FT_Cfgs ==
    {[min_interval |-> 1, backoff_factor |-> 4, max_delay |-> 60],
     [min_interval |-> 1, backoff_factor |-> 4, max_delay |-> 1],
     [min_interval |-> 2, backoff_factor |-> 4, max_delay |-> 60]}

\* one step of fetch_url: "robots", "limit", "get" or "sleep" with its length
Step(name, delay) == [step |-> name, delay |-> delay]

\* the sleep before the retry that follows attempt, in delay units;
\* WebUtils adds random.uniform(0, 1), of which the two ends are taken
RetrySleep(impl, attempt, jitter) ==
    (Pow(2, attempt) + IF impl = "WebUtils" THEN jitter ELSE 0) * Second

\* the steps of one attempt: WebUtils sleeps request_delay before every GET
AttemptSteps(impl) ==
    IF impl = "WebUtils" THEN <<Step("limit", 0), Step("get", 0)>>
    ELSE <<Step("get", 0)>>

FT_Init ==
    /\ ft_impl \in {"AcademicWebCrawler", "WebUtils"}
    /\ ft_respect \in BOOLEAN
    /\ ft_robots \in RobotsKinds
    /\ ft_cache = "absent" /\ ft_reads = 0 /\ ft_calls = 0 /\ ft_pc = "idle"
    /\ ft_path = "/" /\ ft_attempt = 0 /\ ft_gets = 0 /\ ft_limited = FALSE
    /\ ft_outcome = "none"
    /\ ft_cfg \in FT_Cfgs /\ ft_trace = <<>>
    /\ RL_Off /\ DD_Off /\ CF_Off /\ CR_Off /\ BK_Off /\ SE_Off /\ RN_Off /\ PG_Off /\ RB_Off /\ RQ_Off /\ SR_Off /\ GP_Off

\* fetch_url(url) is called; WebUtils.fetch_url has no robots gate
FT_Call(path) ==
    /\ ft_pc = "idle" /\ ft_calls < FT_MaxCalls
    /\ ft_calls' = ft_calls + 1
    /\ ft_path' = path
    /\ ft_pc' = IF ft_impl = "WebUtils" THEN "get" ELSE "gate"
    /\ ft_attempt' = 0 /\ ft_gets' = 0 /\ ft_limited' = FALSE
    /\ ft_outcome' = "none"
    /\ ft_trace' = <<>>
    /\ UNCHANGED <<ft_cfg, ft_impl, ft_respect, ft_robots, ft_cache, ft_reads>>
    /\ FT_Frame

\* if not self.can_fetch(url): return None
FT_Gate ==
    /\ ft_pc = "gate"
    /\ ft_cache = "absent" => ReadEnds(ft_robots)
    /\ ft_cache' = CacheAfterLookup(ft_cache, ft_robots)
    /\ ft_reads' = IF ft_cache = "absent" THEN ft_reads + 1 ELSE ft_reads
    /\ IF CanFetch(ft_cache, ft_robots, ft_path)
       THEN ft_pc' = "limit" /\ UNCHANGED ft_outcome
       ELSE ft_pc' = "idle" /\ ft_outcome' = "blocked"
    /\ ft_trace' = Append(ft_trace, Step("robots", 0))
    /\ UNCHANGED <<ft_cfg, ft_impl, ft_respect, ft_robots, ft_calls, ft_path,
                   ft_attempt, ft_gets, ft_limited>>
    /\ FT_Frame

\* self._apply_rate_limit(url)
FT_RateLimit ==
    /\ ft_pc = "limit"
    /\ ft_limited' = TRUE
    /\ ft_pc' = "get"
    /\ ft_trace' = Append(ft_trace, Step("limit", 0))
    /\ UNCHANGED <<ft_cfg, ft_impl, ft_respect, ft_robots, ft_cache, ft_reads,
                   ft_calls, ft_path, ft_attempt, ft_gets, ft_outcome>>
    /\ FT_Frame

\* the GET of this attempt answers with a page
FT_GetOk ==
    /\ ft_pc = "get"
    /\ ft_gets' = ft_gets + 1
    /\ ft_outcome' = "fetched"
    /\ ft_pc' = "idle"
    /\ ft_trace' = ft_trace \o AttemptSteps(ft_impl)
    /\ UNCHANGED <<ft_cfg, ft_impl, ft_respect, ft_robots, ft_cache, ft_reads,
                   ft_calls, ft_path, ft_attempt, ft_limited>>
    /\ FT_Frame

\* the GET of this attempt raises: back off and loop, or give up after the
\* last attempt
FT_GetFail ==
    /\ ft_pc = "get"
    /\ ft_gets' = ft_gets + 1
    /\ IF ft_attempt < AttemptLimit(ft_impl) - 1
       THEN ft_pc' = "backoff" /\ UNCHANGED ft_outcome
       ELSE ft_pc' = "idle" /\ ft_outcome' = "failed"
    /\ ft_trace' = ft_trace \o AttemptSteps(ft_impl)
    /\ UNCHANGED <<ft_cfg, ft_impl, ft_respect, ft_robots, ft_cache, ft_reads,
                   ft_calls, ft_path, ft_attempt, ft_limited>>
    /\ FT_Frame

\* time.sleep(2 ** attempt) ends and the loop takes the next attempt
FT_Backoff ==
    /\ ft_pc = "backoff"
    /\ ft_attempt' = ft_attempt + 1
    /\ ft_pc' = "get"
    /\ \E jitter \in {0, 1} :
           ft_trace' = Append(ft_trace,
                              Step("sleep", RetrySleep(ft_impl, ft_attempt, jitter)))
    /\ UNCHANGED <<ft_cfg, ft_impl, ft_respect, ft_robots, ft_cache, ft_reads,
                   ft_calls, ft_path, ft_gets, ft_limited, ft_outcome>>
    /\ FT_Frame

FT_Next ==
    \/ \E path \in Paths : FT_Call(path)
    \/ FT_Gate
    \/ FT_RateLimit
    \/ FT_GetOk
    \/ FT_GetFail
    \/ FT_Backoff

SpecFetch == FT_Init /\ [][FT_Next]_vars

\* The call in progress goes on: the gate answers when rp.read() ends, the
\* rate limiter and the back-off sleeps end, and a GET ends within its timeout.
FT_Fairness ==
    /\ WF_vars(FT_Gate)
    /\ WF_vars(FT_RateLimit)
    /\ WF_vars(FT_GetOk \/ FT_GetFail)
    /\ WF_vars(FT_Backoff)

SpecFetchFair == FT_Init /\ [][FT_Next]_vars /\ FT_Fairness

\* C12: a URL that robots.txt disallows is answered as blocked without a GET
\* for it and without passing the rate limiter.
C12_BlockedWithoutRequest ==
    (ft_impl = "AcademicWebCrawler" /\ ft_robots = "rules"
     /\ ft_path = "/private/page")
    => /\ ft_gets = 0 /\ ~ft_limited
       /\ ft_pc \in {"gate", "idle"}
       /\ ft_pc = "idle" => ft_outcome = "blocked"

C12_Witness ==
    /\ ft_impl = "AcademicWebCrawler" /\ ft_robots = "rules"
    /\ ft_path = "/private/page" /\ ft_calls = 2 /\ ft_reads = 1
    /\ ft_pc = "idle" /\ ft_outcome = "blocked" /\ ft_gets = 0

\* C13: when the request for robots.txt fails, no URL of the origin is ever
\* blocked and robots.txt is requested once at most.
C13_RobotsFailureAllows ==
    (ft_impl = "AcademicWebCrawler" /\ ft_robots # "rules")
    => ft_outcome # "blocked" /\ ft_reads <= 1

\* C14: with robots_respect off, robots.txt is neither requested nor cached
\* and no URL is blocked.
C14_PolitenessOffSkipsRobots ==
    (ft_impl = "AcademicWebCrawler" /\ ~ft_respect)
    => ft_reads = 0 /\ ft_cache = "absent" /\ ft_outcome # "blocked"

\* C15: one fetch makes at most max_retries GET attempts and its attempt
\* counter never exceeds max_retries.
C15_AttemptsBounded == ft_gets <= MaxRetries /\ ft_attempt <= MaxRetries

\* C24: no worker waits forever: every fetch_url call that a worker has
\* started comes to an end (fetched, failed or blocked).
C24_EveryFetchEnds == (ft_pc # "idle") ~> (ft_pc = "idle")

(***************************************************************************)
(* can_fetch called by the workers of the pool for URLs of one origin      *)
(* that robot_parsers does not hold yet.                                   *)
(***************************************************************************)
RB_Workers == 2

\* what one request for robots.txt can meet; a request that never ends is
\* left to the fetch_url model above
RB_Kinds == RobotsKinds \ {"stalled"}

RB_Init ==
    /\ rb_pc = [w \in 1..RB_Workers |-> "idle"]
    /\ rb_path = [w \in 1..RB_Workers |-> "/"]
    /\ rb_cache = "absent" /\ rb_reads = 0
    /\ rb_used = [w \in 1..RB_Workers |-> "none"]
    /\ rb_answer = [w \in 1..RB_Workers |-> "none"]
    /\ RL_Off /\ DD_Off /\ CF_Off /\ CR_Off /\ FT_Off /\ BK_Off /\ SE_Off /\ RN_Off /\ PG_Off /\ RQ_Off /\ SR_Off /\ GP_Off

\* if domain not in self.robot_parsers:
RB_Check(w, path) ==
    /\ rb_pc[w] = "idle"
    /\ rb_path' = [rb_path EXCEPT ![w] = path]
    /\ rb_pc' = [rb_pc EXCEPT ![w] = IF rb_cache = "absent" THEN "reading" ELSE "decide"]
    /\ UNCHANGED <<rb_cache, rb_reads, rb_used, rb_answer>>
    /\ RB_Frame

\* rp.read() ends and its outcome is stored: the parser, or None when it raised
RB_Read(w, robots) ==
    /\ rb_pc[w] = "reading"
    /\ rb_reads' = rb_reads + 1
    /\ rb_cache' = CacheAfterLookup("absent", robots)
    /\ rb_pc' = [rb_pc EXCEPT ![w] = "decide"]
    /\ UNCHANGED <<rb_path, rb_used, rb_answer>>
    /\ RB_Frame

\* rp = self.robot_parsers.get(domain); return rp is None or rp.can_fetch(...)
RB_Decide(w) ==
    /\ rb_pc[w] = "decide"
    /\ rb_used' = [rb_used EXCEPT ![w] = rb_cache]
    /\ rb_answer' = [rb_answer EXCEPT ![w] =
                         IF rb_cache = "None" \/ RobotParserCanFetch(rb_cache, rb_path[w])
                         THEN "allowed" ELSE "blocked"]
    /\ rb_pc' = [rb_pc EXCEPT ![w] = "done"]
    /\ UNCHANGED <<rb_path, rb_cache, rb_reads>>
    /\ RB_Frame

RB_Next ==
    \/ \E w \in 1..RB_Workers, path \in Paths : RB_Check(w, path)
    \/ \E w \in 1..RB_Workers, robots \in RB_Kinds : RB_Read(w, robots)
    \/ \E w \in 1..RB_Workers : RB_Decide(w)

SpecRobots == RB_Init /\ [][RB_Next]_vars

\* C34: however the workers interleave, robots.txt is requested once at most
\* for the origin and all workers decide on the same cached policy.
C34_RobotsFetchedOnce ==
    /\ rb_reads <= 1
    /\ \A v, w \in DOMAIN rb_pc :
           (rb_pc[v] = "done" /\ rb_pc[w] = "done") => rb_used[v] = rb_used[w]

(***************************************************************************)
(* RateLimiter.get_retry_delay.  backoff_factor is counted in halves       *)
(* (factor 2.0 is 4), delays in units of 1 / 2^BK_MaxAttempt seconds, so   *)
(* that every product below is exact.                                      *)
(***************************************************************************)
\* backoff_factor ** e, in delay units
FactorPow(halves, e) == Pow(halves, e) * Pow(2, BK_MaxAttempt - e)

\* get_retry_delay with the exponent one too high
GetRetryDelayLate(cfg, attempt) ==
    IF attempt = 0 THEN 0
    ELSE Min(cfg.min_interval * FactorPow(cfg.backoff_factor, attempt),
             cfg.max_delay * Second)

\* get_retry_delay(attempt)
GetRetryDelay(cfg, attempt) ==
    IF attempt = 0 THEN 0
    ELSE Min(cfg.min_interval * FactorPow(cfg.backoff_factor, attempt - 1),
             cfg.max_delay * Second)

\* the configurations RateLimitConfig accepts: it validates nothing
BK_Configs ==
    [min_interval : {1, 2, 3}, backoff_factor : {1, 2, 4, 6}, max_delay : {1, 8, 60}]

BK_Init ==
    /\ bk_cfg \in BK_Configs
    /\ bk_delays = <<>>
    /\ RL_Off /\ DD_Off /\ CF_Off /\ CR_Off /\ FT_Off /\ SE_Off /\ RN_Off /\ PG_Off /\ RB_Off /\ RQ_Off /\ SR_Off /\ GP_Off

\* get_retry_delay is asked for the next attempt number
BK_Ask ==
    /\ Len(bk_delays) < BK_MaxAttempt + 1
    /\ bk_delays' = Append(bk_delays, GetRetryDelay(bk_cfg, Len(bk_delays)))
    /\ UNCHANGED bk_cfg
    /\ BK_Frame

BK_Next == BK_Ask

SpecBackoff == BK_Init /\ [][BK_Next]_vars

RECURSIVE Grown(_, _, _)
\* delay * factor, taken times over, in delay units
Grown(delay, halves, times) ==
    IF times = 0 THEN delay ELSE Grown((delay * halves) \div 2, halves, times - 1)

C17_DelayMonotone ==
    \A i \in 1..(Len(bk_delays) - 1) :
        /\ bk_delays[i + 1] >= bk_delays[i]
        /\ (i >= 2 /\ bk_delays[i] = bk_cfg.max_delay * Second)
               => bk_delays[i + 1] = bk_cfg.max_delay * Second

\* C31: fetch_url takes its steps in the order robots check, rate limiter,
\* GET, and the sleep before each retry is the back-off delay of the rate
\* limiter for the attempts made so far, never more than max_delay.
C31_OrderedAndBackedOff ==
    ft_impl = "AcademicWebCrawler" =>
        /\ Len(ft_trace) >= 1 => ft_trace[1].step = "robots"
        /\ Len(ft_trace) >= 2 => ft_trace[2].step = "limit"
        /\ \A i \in 3..Len(ft_trace) : ft_trace[i].step \in {"get", "sleep"}
        /\ \A i \in 1..Len(ft_trace) :
               ft_trace[i].step = "sleep" =>
                   LET made == Cardinality({j \in 1..i : ft_trace[j].step = "get"})
                   IN  /\ ft_trace[i].delay = GetRetryDelay(ft_cfg, made)
                       /\ ft_trace[i].delay <= ft_cfg.max_delay * Second

(***************************************************************************)
(* The search step: _perform_search with its retries and delays, and what  *)
(* search_and_crawl does with the batch it returns.                        *)
(***************************************************************************)
\* search_initial_delay, search_backoff_factor (in halves), search_max_delay
\* and search_max_retries
SE_Configs ==
    [initial_delay : {2, 5}, backoff_factor : {4, 6}, max_delay : {8, 60},
     max_retries : {1, 3, 5}]

\* what one call of the provider does: yields results, yields none, raises a
\* rate-limit error, raises another error, raises after yielding some results
SearchAnswers == {"results", "empty", "ratelimit", "error", "partial"}

\* the delay before attempt k without the ceiling
SearchDelayUncapped(cfg, attempt) ==
    cfg.initial_delay * FactorPow(cfg.backoff_factor, attempt - 1)

\* min(initial_delay * backoff_factor ** (attempt - 1), max_delay)
SearchDelay(cfg, attempt) ==
    Min(cfg.initial_delay * FactorPow(cfg.backoff_factor, attempt - 1),
        cfg.max_delay * Second)

SE_Init ==
    /\ se_impl \in {"v1", "v0"}
    /\ se_cfg \in SE_Configs
    /\ se_pc = "start" /\ se_attempt = 0 /\ se_calls = 0 /\ se_slept = <<>>
    /\ se_results = 0 /\ se_last = 0 /\ se_batch = 0 /\ se_orgs = 0
    /\ RL_Off /\ DD_Off /\ CF_Off /\ CR_Off /\ FT_Off /\ BK_Off /\ RN_Off /\ PG_Off /\ RB_Off /\ RQ_Off /\ SR_Off /\ GP_Off

\* _perform_search is entered: the global search gate, then attempt 0
SE_Start ==
    /\ se_pc = "start"
    /\ se_pc' = "call"
    /\ UNCHANGED <<se_impl, se_cfg, se_attempt, se_calls, se_slept,
                   se_results, se_last, se_batch, se_orgs>>
    /\ SE_Frame

\* the provider is called and yields results: they are returned
SE_Found ==
    /\ se_pc = "call"
    /\ se_calls' = se_calls + 1
    /\ se_results' = se_results + 1
    /\ se_last' = 1
    /\ se_batch' = se_results + 1
    /\ se_pc' = "returned"
    /\ UNCHANGED <<se_impl, se_cfg, se_attempt, se_slept, se_orgs>>
    /\ SE_Frame

\* the provider is called and the attempt fails: v1 retries or gives up with
\* an empty list, v0 returns an empty answer and raises on an exception
SE_Failed(answer) ==
    /\ se_pc = "call" /\ answer # "results"
    /\ se_calls' = se_calls + 1
    /\ se_results' = IF answer = "partial" THEN se_results + 1 ELSE se_results
    /\ se_last' = IF answer = "partial" THEN 1 ELSE 0
    /\ IF se_impl = "v0"
       THEN /\ se_pc' = IF answer = "empty" THEN "returned" ELSE "raised"
            /\ se_batch' = 0
            /\ UNCHANGED se_attempt
       ELSE IF answer = "empty" /\ se_results > 0
       THEN se_pc' = "returned" /\ se_batch' = se_results /\ UNCHANGED se_attempt
       ELSE IF se_attempt < se_cfg.max_retries - 1
       THEN se_pc' = "sleep" /\ se_attempt' = se_attempt + 1 /\ UNCHANGED se_batch
       ELSE se_pc' = "returned" /\ se_batch' = 0 /\ UNCHANGED se_attempt
    /\ UNCHANGED <<se_impl, se_cfg, se_slept, se_orgs>>
    /\ SE_Frame

\* time.sleep(delay) before a retry
SE_Sleep ==
    /\ se_pc = "sleep"
    /\ se_slept' = Append(se_slept, SearchDelay(se_cfg, se_attempt))
    /\ se_pc' = "call"
    /\ UNCHANGED <<se_impl, se_cfg, se_attempt, se_calls, se_results,
                   se_last, se_batch, se_orgs>>
    /\ SE_Frame

\* search_and_crawl crawls the batch and returns the CrawlResult
SE_Crawl ==
    /\ se_pc = "returned"
    /\ se_orgs' \in IF se_batch = 0 THEN {0} ELSE {0, 1}
    /\ se_pc' = "done"
    /\ UNCHANGED <<se_impl, se_cfg, se_attempt, se_calls, se_slept,
                   se_results, se_last, se_batch>>
    /\ SE_Frame

SE_Next ==
    \/ SE_Start
    \/ SE_Found
    \/ \E answer \in SearchAnswers : SE_Failed(answer)
    \/ SE_Sleep
    \/ SE_Crawl

SpecSearch == SE_Init /\ [][SE_Next]_vars

\* C18: a search whose attempts all fail never raises; it ends with an empty
\* batch and a CrawlResult without organizations.
C18_SearchFailureDegrades ==
    /\ se_pc # "raised"
    /\ (se_pc = "done" /\ se_batch = 0) => se_orgs = 0

\* C19: one call of _perform_search calls the provider at most
\* search_max_retries times, and the k-th delay slept is
\* min(initial_delay * backoff_factor^(k-1), max_delay).
C19_SearchRetriesBounded ==
    /\ se_calls <= se_cfg.max_retries
    /\ \A k \in 1..Len(se_slept) :
           /\ se_slept[k] = Min(Grown(se_cfg.initial_delay * Second,
                                      se_cfg.backoff_factor, k - 1),
                                se_cfg.max_delay * Second)
           /\ se_slept[k] <= se_cfg.max_delay * Second

C19_Witness ==
    /\ se_impl = "v1" /\ se_pc = "returned" /\ se_batch = 0
    /\ se_cfg = [initial_delay |-> 2, backoff_factor |-> 4, max_delay |-> 8,
                 max_retries |-> 5]
    /\ se_calls = 5
    /\ se_slept = <<2 * Second, 4 * Second, 8 * Second, 8 * Second>>

\* C40: the list _perform_search returns holds the results of the attempt
\* that succeeded and nothing an earlier attempt left behind.
C40_OnlyLastAttemptReturned ==
    (se_pc = "returned" /\ se_batch > 0) => se_batch = se_last

(***************************************************************************)
(* The GET requests that the workers' fetch_url calls send to one domain:  *)
(* _apply_rate_limit once per call, then the attempts with their sleeps.   *)
(* Times are in seconds; a GET that fails is taken to fail at once.        *)
(***************************************************************************)
GP_Workers == 2
GP_MaxDelay == 2
GP_MaxTime == 6
GP_MaxCalls == 2

GP_Init ==
    /\ gp_delay \in 1..GP_MaxDelay
    /\ gp_now = GP_MaxDelay
    /\ gp_pc = [w \in 1..GP_Workers |-> "idle"]
    /\ gp_lock = 0 /\ gp_last = 0
    /\ gp_wake = [w \in 1..GP_Workers |-> 0]
    /\ gp_attempt = [w \in 1..GP_Workers |-> 0]
    /\ gp_gets = <<>> /\ gp_calls = 0
    /\ RL_Off /\ DD_Off /\ CF_Off /\ CR_Off /\ FT_Off /\ BK_Off /\ SE_Off /\ RN_Off /\ PG_Off /\ RB_Off /\ RQ_Off /\ SR_Off

\* time passes
GP_Tick ==
    /\ gp_now < GP_MaxTime
    /\ gp_now' = gp_now + 1
    /\ UNCHANGED <<gp_delay, gp_pc, gp_lock, gp_last, gp_wake, gp_attempt,
                   gp_gets, gp_calls>>
    /\ GP_Frame

\* a worker calls fetch_url for an allowed URL of the domain
GP_Call(w) ==
    /\ gp_pc[w] = "idle" /\ gp_calls < GP_MaxCalls
    /\ gp_calls' = gp_calls + 1
    /\ gp_pc' = [gp_pc EXCEPT ![w] = "want"]
    /\ gp_attempt' = [gp_attempt EXCEPT ![w] = 0]
    /\ UNCHANGED <<gp_delay, gp_now, gp_lock, gp_last, gp_wake, gp_gets>>
    /\ GP_Frame

\* _apply_rate_limit: with self.per_domain_lock, wait_time is computed and
\* the sleep begins
GP_Enter(w) ==
    /\ gp_pc[w] = "want" /\ gp_lock = 0
    /\ gp_lock' = w
    /\ LET wait_time == gp_delay - (gp_now - gp_last)
       IN  gp_wake' = [gp_wake EXCEPT ![w] =
                          IF wait_time > 0 THEN gp_now + wait_time ELSE gp_now]
    /\ gp_pc' = [gp_pc EXCEPT ![w] = "inside"]
    /\ UNCHANGED <<gp_delay, gp_now, gp_last, gp_attempt, gp_gets, gp_calls>>
    /\ GP_Frame

\* the sleep is over: the timestamp is stored and the lock released
GP_Grant(w) ==
    /\ gp_pc[w] = "inside" /\ gp_now >= gp_wake[w]
    /\ gp_last' = gp_now
    /\ gp_lock' = 0
    /\ gp_pc' = [gp_pc EXCEPT ![w] = "get"]
    /\ UNCHANGED <<gp_delay, gp_now, gp_wake, gp_attempt, gp_gets, gp_calls>>
    /\ GP_Frame

\* requests.get of this attempt: it answers, or it raises and the worker
\* sleeps 2 ** attempt unless this was the last attempt
GP_Get(w, ok) ==
    /\ gp_pc[w] = "get"
    /\ gp_gets' = Append(gp_gets, gp_now)
    /\ IF ~ok /\ gp_attempt[w] < MaxRetries - 1
       THEN /\ gp_pc' = [gp_pc EXCEPT ![w] = "backoff"]
            /\ gp_wake' = [gp_wake EXCEPT ![w] =
                   gp_now + RetrySleep("AcademicWebCrawler", gp_attempt[w], 0) \div Second]
       ELSE /\ gp_pc' = [gp_pc EXCEPT ![w] = "idle"]
            /\ UNCHANGED gp_wake
    /\ UNCHANGED <<gp_delay, gp_now, gp_lock, gp_last, gp_attempt, gp_calls>>
    /\ GP_Frame

\* the sleep before the retry is over and the loop takes the next attempt
GP_Retry(w) ==
    /\ gp_pc[w] = "backoff" /\ gp_now >= gp_wake[w]
    /\ gp_attempt' = [gp_attempt EXCEPT ![w] = @ + 1]
    /\ gp_pc' = [gp_pc EXCEPT ![w] = "get"]
    /\ UNCHANGED <<gp_delay, gp_now, gp_lock, gp_last, gp_wake, gp_gets, gp_calls>>
    /\ GP_Frame

GP_Next ==
    \/ GP_Tick
    \/ \E w \in 1..GP_Workers : GP_Call(w)
    \/ \E w \in 1..GP_Workers : GP_Enter(w)
    \/ \E w \in 1..GP_Workers : GP_Grant(w)
    \/ \E w \in 1..GP_Workers, ok \in BOOLEAN : GP_Get(w, ok)
    \/ \E w \in 1..GP_Workers : GP_Retry(w)

SpecPolite == GP_Init /\ [][GP_Next]_vars

\* C39: any two GET requests sent to the domain, retries and the requests
\* of other workers included, are at least request_delay apart.
C39_GetsSpaced ==
    \A k \in 1..(Len(gp_gets) - 1) : gp_gets[k + 1] - gp_gets[k] >= gp_delay

(***************************************************************************)
(* _apply_global_search_rate_limit, called by the threads of several       *)
(* AcademicWebCrawler instances of one process.  Times are in seconds.     *)
(***************************************************************************)
SR_Instances == 2
SR_MaxTime == 7
SR_MaxCalls == 3

\* AcademicWebCrawler._min_search_interval
MinSearchInterval == 3

\* self._last_search_time as an attribute read: the instance's own
\* attribute when it has one, else the attribute of the class
ReadLastSearchTime(own, class) == IF own = <<>> THEN class ELSE own[1]

SR_Init ==
    /\ sr_now = MinSearchInterval
    /\ sr_pc = [i \in 1..SR_Instances |-> "idle"]
    /\ sr_lock = 0 /\ sr_class = 0
    /\ sr_own = [i \in 1..SR_Instances |-> <<>>]
    /\ sr_wake = [i \in 1..SR_Instances |-> 0]
    /\ sr_grants = <<>> /\ sr_calls = 0
    /\ RL_Off /\ DD_Off /\ CF_Off /\ CR_Off /\ FT_Off /\ BK_Off /\ SE_Off /\ RN_Off /\ PG_Off /\ RB_Off /\ RQ_Off /\ GP_Off

\* time passes
SR_Tick ==
    /\ sr_now < SR_MaxTime
    /\ sr_now' = sr_now + 1
    /\ UNCHANGED <<sr_pc, sr_lock, sr_class, sr_own, sr_wake, sr_grants, sr_calls>>
    /\ SR_Frame

\* _perform_search of instance i calls self._apply_global_search_rate_limit()
SR_Call(i) ==
    /\ sr_pc[i] = "idle" /\ sr_calls < SR_MaxCalls
    /\ sr_calls' = sr_calls + 1
    /\ sr_pc' = [sr_pc EXCEPT ![i] = "want"]
    /\ UNCHANGED <<sr_now, sr_lock, sr_class, sr_own, sr_wake, sr_grants>>
    /\ SR_Frame

\* with self._search_lock: the times are read and the sleep begins
SR_Enter(i) ==
    /\ sr_pc[i] = "want" /\ sr_lock = 0
    /\ sr_lock' = i
    /\ LET since == sr_now - ReadLastSearchTime(sr_own[i], sr_class)
       IN  sr_wake' = [sr_wake EXCEPT ![i] =
                          IF since < MinSearchInterval
                          THEN sr_now + (MinSearchInterval - since) ELSE sr_now]
    /\ sr_pc' = [sr_pc EXCEPT ![i] = "inside"]
    /\ UNCHANGED <<sr_now, sr_class, sr_own, sr_grants, sr_calls>>
    /\ SR_Frame

\* the sleep is over; self._last_search_time = time.time() binds the
\* attribute on the instance, and the lock is released
SR_Grant(i) ==
    /\ sr_pc[i] = "inside" /\ sr_now >= sr_wake[i]
    /\ sr_own' = [sr_own EXCEPT ![i] = <<sr_now>>]
    /\ sr_grants' = Append(sr_grants, sr_now)
    /\ sr_lock' = 0
    /\ sr_pc' = [sr_pc EXCEPT ![i] = "idle"]
    /\ UNCHANGED <<sr_now, sr_class, sr_wake, sr_calls>>
    /\ SR_Frame

SR_Next ==
    \/ SR_Tick
    \/ \E i \in 1..SR_Instances : SR_Call(i)
    \/ \E i \in 1..SR_Instances : SR_Enter(i)
    \/ \E i \in 1..SR_Instances : SR_Grant(i)

SpecSearchRate == SR_Init /\ [][SR_Next]_vars

\* C37: any two grants of the search rate limit in one process, by one
\* crawler instance or by two, are at least the minimum search interval apart.
C37_SearchGrantsSpaced ==
    \A k \in 1..(Len(sr_grants) - 1) :
        sr_grants[k + 1] - sr_grants[k] >= MinSearchInterval

(***************************************************************************)
(* The queue-driven crawler: RequestQueue and AcademicCrawler.run with     *)
(* process_request, fetch_page and default_handler.                        *)
(***************************************************************************)
RN_MaxUrls == 3
RN_MaxConc == 2
RN_MaxBudget == 3

\* RequestQueue.max_size
MaxSize == 10000
\* CrawlRequest.max_retries
RequestMaxRetries == 3
\* the priority extract_new_requests gives a directory link
DirectoryPriority == 5

RN_Urls == 1..RN_MaxUrls

CrawlRequest(url, priority) ==
    [url |-> url, priority |-> priority, retries |-> 0]

\* an insertion before the first request of lower or equal priority
InsertAtOrBeforeEqual(queue, request) ==
    LET lower == {i \in 1..Len(queue) : request.priority >= queue[i].priority}
    IN  IF lower = {} THEN Len(queue) + 1
        ELSE CHOOSE i \in lower : \A j \in lower : i <= j

\* the position RequestQueue.add_request inserts at: before the first request
\* of lower priority, else at the end
InsertAt(queue, request) ==
    LET lower == {i \in 1..Len(queue) : request.priority > queue[i].priority}
    IN  IF lower = {} THEN Len(queue) + 1
        ELSE CHOOSE i \in lower : \A j \in lower : i <= j

\* a test that lets a full queue take one more
AddAcceptedWhenFull(queue, processed, request, max_size) ==
    ~(request.url \in processed \/ Len(queue) > max_size)

\* RequestQueue.add_request: its return value
AddAccepted(queue, processed, request, max_size) ==
    ~(request.url \in processed \/ Len(queue) >= max_size)

\* RequestQueue.add_request: the queue afterwards, for a queue of max_size
AddRequestTo(queue, processed, request, max_size) ==
    IF ~AddAccepted(queue, processed, request, max_size) THEN queue
    ELSE LET k == InsertAt(queue, request)
         IN  SubSeq(queue, 1, k - 1) \o <<request>> \o SubSeq(queue, k, Len(queue))

\* RequestQueue.add_request on the crawler's queue: the queue afterwards
AddRequest(queue, processed, request) ==
    AddRequestTo(queue, processed, request, MaxSize)

RECURSIVE AddRequests(_, _, _)
\* add_request for each request of a list, in order
AddRequests(queue, processed, requests) ==
    IF requests = <<>> THEN queue
    ELSE AddRequests(AddRequest(queue, processed, Head(requests)), processed,
                     Tail(requests))

RECURSIVE NewRequests(_)
\* extract_new_requests: one UNIVERSITY_DIRECTORY request per directory link
NewRequests(links) ==
    IF links = <<>> THEN <<>>
    ELSE <<CrawlRequest(Head(links), DirectoryPriority)>> \o NewRequests(Tail(links))

\* the directory links a page may carry: none, or the next URL and the first
LinkChoices(u) ==
    LET next == IF u < RN_MaxUrls THEN u + 1 ELSE u
    IN  {<<>>, <<next, 1>>}

\* the request get_next_request hands out and the state it leaves
NextRequest(queue, processed) ==
    IF queue = <<>> THEN [got |-> FALSE, queue |-> queue, processed |-> processed]
    ELSE [got |-> TRUE, queue |-> Tail(queue),
          processed |-> processed \cup {Head(queue).url}]

\* a batch that takes the whole queue
BatchSizeWholeQueue(conc, size) == size

\* min(self.max_concurrent, self.request_queue.size())
BatchSize(conc, size) == Min(conc, size)

RN_Init ==
    /\ rn_conc \in 1..RN_MaxConc
    /\ rn_budget \in 1..RN_MaxBudget
    /\ rn_up \in [RN_Urls -> BOOLEAN]
    /\ rn_links \in {f \in [RN_Urls -> UNION {LinkChoices(u) : u \in RN_Urls}] :
                        \A u \in RN_Urls : f[u] \in LinkChoices(u)}
    /\ \E seeds \in {<<1>>, <<1, 2, 3>>}, priority \in {0, 10} :
           rn_queue = AddRequests(<<>>, {},
                          [i \in 1..Len(seeds) |-> CrawlRequest(seeds[i], priority)])
    /\ rn_processed = {} /\ rn_count = 0 /\ rn_pc = "loop"
    /\ rn_tasks = {} /\ rn_ended = <<>> /\ rn_results = {}
    /\ RL_Off /\ DD_Off /\ CF_Off /\ CR_Off /\ FT_Off /\ BK_Off /\ SE_Off /\ PG_Off /\ RB_Off /\ RQ_Off /\ SR_Off /\ GP_Off

\* one round of the while loop: the batch is taken off the queue and a task
\* is created for each request
RN_Batch ==
    /\ rn_pc = "loop" /\ rn_queue # <<>> /\ rn_count < rn_budget
    /\ LET n == BatchSize(rn_conc, Len(rn_queue))
       IN  /\ rn_tasks' = {[id |-> rn_count + k, request |-> rn_queue[k],
                            stage |-> "fetching"] : k \in 1..n}
           /\ rn_processed' = rn_processed \cup {rn_queue[k].url : k \in 1..n}
           /\ rn_queue' = SubSeq(rn_queue, n + 1, Len(rn_queue))
           /\ rn_count' = rn_count + n
    /\ rn_pc' = "gather"
    /\ UNCHANGED <<rn_conc, rn_budget, rn_up, rn_links, rn_ended, rn_results>>
    /\ RN_Frame

\* fetch_page returns the page; process_request goes on to its sleep
RN_FetchOk(t) ==
    /\ rn_pc = "gather" /\ t \in rn_tasks /\ t.stage = "fetching"
    /\ rn_up[t.request.url]
    /\ rn_tasks' = (rn_tasks \ {t}) \cup {[t EXCEPT !.stage = "sleeping"]}
    /\ UNCHANGED <<rn_conc, rn_budget, rn_up, rn_links, rn_queue, rn_processed,
                   rn_count, rn_pc, rn_ended, rn_results>>
    /\ RN_Frame

\* fetch_page fails: the request is offered to the queue again and the task ends
RN_FetchFail(t) ==
    /\ rn_pc = "gather" /\ t \in rn_tasks /\ t.stage = "fetching"
    /\ ~rn_up[t.request.url]
    /\ rn_queue' =
           IF t.request.retries < RequestMaxRetries
           THEN AddRequest(rn_queue, rn_processed,
                           [t.request EXCEPT !.retries = @ + 1])
           ELSE rn_queue
    /\ rn_tasks' = rn_tasks \ {t}
    /\ rn_ended' = Append(rn_ended, t.request.url)
    /\ UNCHANGED <<rn_conc, rn_budget, rn_up, rn_links, rn_processed, rn_count,
                   rn_pc, rn_results>>
    /\ RN_Frame

\* default_handler: the organizations are stored and the directory links queued
RN_Handle(t) ==
    /\ rn_pc = "gather" /\ t \in rn_tasks /\ t.stage = "sleeping"
    /\ rn_results' = rn_results \cup {t.request.url}
    /\ rn_queue' = AddRequests(rn_queue, rn_processed,
                               NewRequests(rn_links[t.request.url]))
    /\ rn_tasks' = rn_tasks \ {t}
    /\ rn_ended' = Append(rn_ended, t.request.url)
    /\ UNCHANGED <<rn_conc, rn_budget, rn_up, rn_links, rn_processed, rn_count,
                   rn_pc>>
    /\ RN_Frame

\* asyncio.gather returns: every task of the batch has ended
RN_Gathered ==
    /\ rn_pc = "gather" /\ rn_tasks = {}
    /\ rn_pc' = "loop"
    /\ UNCHANGED <<rn_conc, rn_budget, rn_up, rn_links, rn_queue, rn_processed,
                   rn_count, rn_tasks, rn_ended, rn_results>>
    /\ RN_Frame

\* the task running run() is cancelled while it awaits the batch: gather
\* cancels the tasks of the batch and run() raises CancelledError
RN_Cancel ==
    /\ rn_pc = "gather"
    /\ rn_tasks' = {}
    /\ rn_pc' = "cancelled"
    /\ UNCHANGED <<rn_conc, rn_budget, rn_up, rn_links, rn_queue, rn_processed,
                   rn_count, rn_ended, rn_results>>
    /\ RN_Frame

\* the while condition fails and run() returns
RN_Return ==
    /\ rn_pc = "loop" /\ (rn_queue = <<>> \/ rn_count >= rn_budget)
    /\ rn_pc' = "done"
    /\ UNCHANGED <<rn_conc, rn_budget, rn_up, rn_links, rn_queue, rn_processed,
                   rn_count, rn_tasks, rn_ended, rn_results>>
    /\ RN_Frame

RN_Next ==
    \/ RN_Batch
    \/ \E t \in rn_tasks : RN_FetchOk(t)
    \/ \E t \in rn_tasks : RN_FetchFail(t)
    \/ \E t \in rn_tasks : RN_Handle(t)
    \/ RN_Gathered
    \/ RN_Cancel
    \/ RN_Return

SpecRun == RN_Init /\ [][RN_Next]_vars

\* Both crawlers: a run of search_and_crawl or a run of AcademicCrawler.run
PL_Init == CR_Init \/ RN_Init

PL_Next == CR_Next \/ RN_Next

SpecPools == PL_Init /\ [][PL_Next]_vars

\* C22: at every moment the requests being processed by a worker are at most
\* the configured concurrency: the futures running in the thread pool, and
\* the tasks of the batch run() is waiting for.
C22_ConcurrencyBounded ==
    /\ cr_pc # "off" =>
           Cardinality({i \in BatchUrls : cr_state[i] = "running"}) <= CR_Workers
    /\ rn_pc # "off" => Cardinality(rn_tasks) <= rn_conc

C22_Witness ==
    /\ rn_pc = "gather" /\ rn_conc > 1 /\ Cardinality(rn_tasks) = rn_conc
    /\ Len(rn_queue) > 0

\* C25: after a cancellation every request that had been dispatched has run
\* to its end (its fetch failed, or its page was handled and its candidates
\* stored), and nothing is dispatched any more.
C25_CancelDrains ==
    rn_pc = "cancelled" =>
        /\ Len(rn_ended) = rn_count
        /\ \A u \in rn_processed : rn_up[u] => u \in rn_results

\* C32: a request whose fetch failed with retries left is fetched again: when
\* run() returns with budget left, every URL whose GET fails has been
\* dispatched more than once.
C32_FailedFetchRetried ==
    (rn_pc = "done" /\ rn_count < rn_budget) =>
        \A u \in rn_processed :
            ~rn_up[u] => Cardinality({i \in 1..Len(rn_ended) : rn_ended[i] = u}) >= 2

\* C38: no URL is held twice in the request queue, and no URL whose page was
\* fetched is dispatched a second time.
C38_NoDuplicateRequests ==
    /\ \A i, j \in 1..Len(rn_queue) : rn_queue[i].url = rn_queue[j].url => i = j
    /\ \A u \in RN_Urls :
           rn_up[u] => Cardinality({i \in 1..Len(rn_ended) : rn_ended[i] = u}) <= 1

\* C23: the requests dispatched in one run, those created from directory
\* links included, never exceed the request budget max_requests.
C23_BudgetRespected == rn_count <= rn_budget

(***************************************************************************)
(* RequestQueue on its own: add_request and get_next_request called in any *)
(* order.  Each request carries the number of the call that offered it.    *)
(***************************************************************************)
RQ_MaxOps == 4
RQ_MaxSize == 3

RQ_Urls == {1, 2}
RQ_Priorities == {0, DirectoryPriority, 10}

RQ_Init ==
    /\ rq_max \in 0..RQ_MaxSize
    /\ rq_queue = <<>> /\ rq_processed = {} /\ rq_ops = 0
    /\ rq_last = [op |-> "none", request |-> <<>>, ret |-> FALSE,
                  queue |-> <<>>, processed |-> {}]
    /\ RL_Off /\ DD_Off /\ CF_Off /\ CR_Off /\ FT_Off /\ BK_Off /\ SE_Off /\ RN_Off /\ PG_Off /\ RB_Off /\ SR_Off /\ GP_Off

\* add_request(CrawlRequest(url, priority=priority))
RQ_Add(url, priority) ==
    /\ rq_ops < RQ_MaxOps
    /\ LET request == [call |-> rq_ops] @@ CrawlRequest(url, priority)
       IN  /\ rq_queue' = AddRequestTo(rq_queue, rq_processed, request, rq_max)
           /\ rq_last' = [op |-> "add", request |-> <<request>>,
                          ret |-> AddAccepted(rq_queue, rq_processed, request, rq_max),
                          queue |-> rq_queue, processed |-> rq_processed]
    /\ rq_ops' = rq_ops + 1
    /\ UNCHANGED <<rq_max, rq_processed>>
    /\ RQ_Frame

\* get_next_request()
RQ_Get ==
    /\ rq_ops < RQ_MaxOps
    /\ LET next == NextRequest(rq_queue, rq_processed)
       IN  /\ rq_queue' = next.queue
           /\ rq_processed' = next.processed
           /\ rq_last' = [op |-> "get", ret |-> next.got,
                          request |-> IF next.got THEN <<Head(rq_queue)>> ELSE <<>>,
                          queue |-> rq_queue, processed |-> rq_processed]
    /\ rq_ops' = rq_ops + 1
    /\ UNCHANGED rq_max
    /\ RQ_Frame

RQ_Next ==
    \/ \E url \in RQ_Urls, priority \in RQ_Priorities : RQ_Add(url, priority)
    \/ RQ_Get

SpecQueue == RQ_Init /\ [][RQ_Next]_vars

\* C35: the queue is ordered by non-increasing priority, requests of equal
\* priority in the order they were added, and get_next_request returns a
\* request of maximal priority, the one added first among those.
C35_QueueOrdered ==
    /\ \A i, j \in 1..Len(rq_queue) :
           i < j => \/ rq_queue[i].priority > rq_queue[j].priority
                    \/ /\ rq_queue[i].priority = rq_queue[j].priority
                       /\ rq_queue[i].call < rq_queue[j].call
    /\ (rq_last.op = "get" /\ rq_last.ret) =>
           \A k \in 1..Len(rq_last.queue) :
               LET got == rq_last.request[1]
                   other == rq_last.queue[k]
               IN  \/ got.priority > other.priority
                   \/ got.priority = other.priority /\ got.call <= other.call

\* three requests were queued, the one added last with the highest priority
\* and the other two with equal priority, and one was taken
C35_Witness ==
    /\ rq_last.op = "get" /\ rq_last.ret /\ Len(rq_last.queue) = 3
    /\ rq_last.request[1].call = 2
    /\ rq_last.queue[2].priority = rq_last.queue[3].priority
    /\ rq_last.queue[2].url = rq_last.queue[3].url

\* C36: the queue never holds more than max_size requests, and an
\* add_request for a processed URL or on a full queue returns False and
\* changes neither the queue nor processed_urls.
C36_QueueBounded ==
    /\ Len(rq_queue) <= rq_max
    /\ (/\ rq_last.op = "add"
        /\ \/ rq_last.request[1].url \in rq_last.processed
           \/ Len(rq_last.queue) >= rq_max)
       => /\ ~rq_last.ret
          /\ rq_queue = rq_last.queue /\ rq_processed = rq_last.processed

\* an add_request refused because the queue was full, and one refused
\* because the URL had been handed out
C36_Witness ==
    /\ rq_last.op = "add" /\ ~rq_last.ret
    /\ \/ /\ rq_max > 0 /\ Len(rq_last.queue) = rq_max
          /\ rq_last.request[1].url \notin rq_last.processed
       \/ /\ Len(rq_last.queue) < rq_max /\ rq_last.queue # <<>>
          /\ rq_last.request[1].url \in rq_last.processed

(***************************************************************************)
(* One fetched page: the structured-data, link and table strategies of     *)
(* _extract_organizations_from_soup (v1) and extract_organizations         *)
(* (crawlee_crawler), and what the crawl returns for the page.             *)
(***************************************************************************)
PG_MaxBlocks == 2
PG_MaxRows == 2

\* the page, the entity its JSON-LD entry describes, and the anchor that
\* names the entity with a trailing word and points to another host
PageUrl == "https://harvard.edu/about"
EntityName == <<"Harvard", "University">>
EntityUrl == "https://harvard.edu"
TrailingAnchor ==
    [text |-> <<"Harvard", "University", "MIT">>,
     href |-> "https://news.example.com/harvard"]

\* a script block: an entry for the entity, text that is not JSON, or a
\* script element without text (script.string is None)
BlockKinds == {"entry", "invalid", "empty"}

\* a table row: a cell with a linked name, or a cell whose anchor has no text
\* and an href urljoin() rejects
RowKinds == {"row", "badrow"}

RowAnchor(kind) ==
    IF kind = "row"
    THEN [text |-> <<"MIT", "University">>, href |-> "https://news.example.com/education"]
    ELSE [text |-> <<>>, href |-> BadHref]

\* json.loads(script.string) raises: JSONDecodeError for text that is not
\* JSON, TypeError for None
BlockError(kind) ==
    CASE kind = "invalid" -> "JSONDecodeError"
      [] kind = "empty" -> "TypeError"
      [] OTHER -> "none"

\* the except clause around one block catches the error: 'except Exception'
\* in v1, 'except json.JSONDecodeError' in crawlee_crawler
Catches(impl, error) ==
    IF impl = "AcademicWebCrawler" THEN TRUE ELSE error = "JSONDecodeError"

\* '.edu' or '.ac.' in the URL
HasDotEdu(u) == u \in {"www.harvard.edu", "https://harvard.edu", "https://harvard.edu/about"}

\* AcademicCrawler.calculate_academic_confidence(text, url); none of the
\* sample URLs holds one of the keywords
CrawleeConfidence(text, url) ==
    Min(30 * Cardinality({k \in {"university", "college", "institute", "school",
                                 "academy"} :
                             \E i \in 1..Len(text) : Lower(text[i]) = k})
        + (IF HasDotEdu(url) THEN 40 ELSE 0)
        + (IF Len(text) >= 2
              /\ Cardinality({i \in 1..Len(text) : StartsUpper(text[i])}) >= 2
           THEN 20 ELSE 0),
        100)

\* is_academic_url(url, text) and not should_exclude(url, text)
CrawleeAccepts(text, url) ==
    \/ url = "https://harvard.edu"
    \/ \E i \in 1..Len(text) : Lower(text[i]) \in {"university", "college"}

\* one JSON-LD entry of the entity
BlockCandidates(impl) ==
    IF impl = "AcademicWebCrawler" THEN FromStructuredData(EntityName, EntityUrl)
    ELSE <<Candidate(EntityName, EntityUrl, 90, "structured_data")>>

\* one anchor in the link strategy
LinkCandidates(impl, a, source) ==
    IF impl = "AcademicWebCrawler" THEN FromLink(a.text, a.href, source)
    ELSE IF /\ a.text # <<>> /\ NameLen(a.text) >= 3
            /\ Host(a.href) # Host(source)
            /\ CrawleeAccepts(a.text, a.href)
            /\ CrawleeConfidence(a.text, a.href) >= 50
         THEN <<Candidate(a.text, a.href, CrawleeConfidence(a.text, a.href),
                          "link_analysis")>>
         ELSE <<>>

\* one anchor of a table cell in the table strategy
RowCandidates(impl, a) ==
    IF impl = "AcademicWebCrawler" THEN FromTable(a.text, a.href)
    ELSE IF CrawleeAccepts(a.text, a.href) /\ CrawleeConfidence(a.text, a.href) >= 60
         THEN <<Candidate(a.text, a.href, CrawleeConfidence(a.text, a.href),
                          "table_extraction")>>
         ELSE <<>>

\* soup.find_all('a', href=True): the anchors of the page, those of the table
\* cells included
AllAnchors(links, rows) == links \o [i \in 1..Len(rows) |-> RowAnchor(rows[i])]

\* the link strategy reaches urljoin with this anchor: it has text
LinkJoinRaises(a) == a.text # <<>> /\ a.href = BadHref

RECURSIVE AllLinkCandidates(_, _, _)
AllLinkCandidates(impl, anchors, source) ==
    IF anchors = <<>> THEN <<>>
    ELSE LinkCandidates(impl, Head(anchors), source)
         \o AllLinkCandidates(impl, Tail(anchors), source)

SeqsUpTo(S, n) == UNION {[1..k -> S] : k \in 0..n}

PG_Init ==
    /\ pg_impl \in {"AcademicWebCrawler", "AcademicCrawler"}
    /\ pg_disc \in BOOLEAN
    /\ pg_blocks \in SeqsUpTo(BlockKinds, PG_MaxBlocks)
    /\ pg_links \in {<<>>, <<TrailingAnchor>>}
    /\ pg_rows \in SeqsUpTo(RowKinds, PG_MaxRows)
    /\ pg_pc = "structured" /\ pg_i = 0 /\ pg_orgs = <<>> /\ pg_result = <<>>
    /\ RL_Off /\ DD_Off /\ CF_Off /\ CR_Off /\ FT_Off /\ BK_Off /\ SE_Off /\ RB_Off /\ RQ_Off /\ SR_Off /\ GP_Off
    /\ RN_Off

\* the structured-data strategy handles the next script block
PG_Block ==
    /\ pg_pc = "structured" /\ pg_i < Len(pg_blocks)
    /\ LET kind == pg_blocks[pg_i + 1]
       IN  IF BlockError(kind) = "none"
           THEN /\ pg_orgs' = pg_orgs \o BlockCandidates(pg_impl)
                /\ pg_i' = pg_i + 1 /\ UNCHANGED pg_pc
           ELSE IF Catches(pg_impl, BlockError(kind))
           THEN pg_i' = pg_i + 1 /\ UNCHANGED <<pg_orgs, pg_pc>>
           ELSE pg_pc' = "raised" /\ UNCHANGED <<pg_orgs, pg_i>>
    /\ UNCHANGED <<pg_impl, pg_disc, pg_blocks, pg_links, pg_rows, pg_result>>
    /\ PG_Frame

\* the structured-data strategy returns and the link strategy runs over
\* every anchor of the page
PG_Links ==
    /\ pg_pc = "structured" /\ pg_i = Len(pg_blocks)
    /\ LET anchors == AllAnchors(pg_links, pg_rows)
       IN  IF \E i \in 1..Len(anchors) : LinkJoinRaises(anchors[i])
           THEN pg_pc' = "raised" /\ UNCHANGED pg_orgs
           ELSE /\ pg_orgs' = pg_orgs \o AllLinkCandidates(pg_impl, anchors, PageUrl)
                /\ pg_pc' = "tables"
    /\ pg_i' = 0
    /\ UNCHANGED <<pg_impl, pg_disc, pg_blocks, pg_links, pg_rows, pg_result>>
    /\ PG_Frame

\* the table strategy handles the next row
PG_Row ==
    /\ pg_pc = "tables" /\ pg_i < Len(pg_rows)
    /\ LET a == RowAnchor(pg_rows[pg_i + 1])
       IN  IF a.href = BadHref
           THEN pg_pc' = "raised" /\ UNCHANGED <<pg_orgs, pg_i>>
           ELSE /\ pg_orgs' = pg_orgs \o RowCandidates(pg_impl, a)
                /\ pg_i' = pg_i + 1 /\ UNCHANGED pg_pc
    /\ UNCHANGED <<pg_impl, pg_disc, pg_blocks, pg_links, pg_rows, pg_result>>
    /\ PG_Frame

\* the strategies are through: the page's candidates are de-duplicated and
\* the crawl returns its organizations
PG_Return ==
    /\ pg_pc = "tables" /\ pg_i = Len(pg_rows)
    /\ pg_result' =
           IF pg_impl = "AcademicCrawler" THEN SortByConf(ExactDedup(pg_orgs))
           ELSE IF pg_disc THEN DeduplicateAll(ExactDedup(pg_orgs) \o Discovered)
           ELSE ExactDedup(pg_orgs)
    /\ pg_pc' = "done"
    /\ UNCHANGED <<pg_impl, pg_disc, pg_blocks, pg_links, pg_rows, pg_i, pg_orgs>>
    /\ PG_Frame

PG_Next ==
    \/ PG_Block
    \/ PG_Links
    \/ PG_Row
    \/ PG_Return

SpecPage == PG_Init /\ [][PG_Next]_vars

\* C27: a failure in one JSON-LD block or one table row stays in that block
\* or row: the page's extraction does not abort, and the candidates of the
\* sound blocks, of the links and of the sound rows are returned.
C27_ParseFailureConfined ==
    /\ pg_pc # "raised"
    /\ pg_pc = "done" =>
           /\ (\E i \in 1..Len(pg_blocks) : pg_blocks[i] = "entry")
                  => \E j \in 1..Len(pg_result) : pg_result[j].method = "structured_data"
           /\ pg_links # <<>>
                  => \E j \in 1..Len(pg_result) : pg_result[j].name = TrailingAnchor.text
           /\ (\E i \in 1..Len(pg_rows) : pg_rows[i] = "row")
                  => \E j \in 1..Len(pg_result) : pg_result[j].name = RowAnchor("row").text

\* C28: a page with a JSON-LD entry for an entity and an anchor naming the
\* entity with trailing words on another host gives exactly one organization
\* for the entity, extracted as structured_data with confidence >= 0.9.
C28_StructuredDataWins ==
    (/\ pg_pc = "done" /\ pg_links = <<TrailingAnchor>>
     /\ \E i \in 1..Len(pg_blocks) : pg_blocks[i] = "entry")
    => LET entity == {j \in 1..Len(pg_result) :
                         SubSeq(pg_result[j].name, 1, 2) = EntityName}
       IN  /\ Cardinality(entity) = 1
           /\ \A j \in entity : /\ pg_result[j].method = "structured_data"
                                /\ pg_result[j].conf >= 90

=============================================================================
